---------------------------- MODULE Spec2Model ----------------------------
(***************************************************************************)
(* A model of the Grux edge server's runtime lifecycle (running state,     *)
(* trigger registry, accept loops), its port manager with the PHP-CGI      *)
(* workers that use it, and its path-security gate.                        *)
(*                                                                         *)
(* The module holds several state machines that share no state.  Each has *)
(* its own specification (SpecPM, SpecPath, SpecRS, ...); a specification  *)
(* leaves the variables of the other machines at their idle values.        *)
(***************************************************************************)
EXTENDS Integers, Sequences, FiniteSets, TLC

VARIABLES
    \* ---- port manager and PHP-CGI workers
    pm,          \* PortManager: [allocated_ports, service_ports]
    php,         \* PhpCgiProcess per worker: [process, assigned_port, pc]
    pmlast,      \* the last port-manager call: [op, svc, port, ret, pre]
    rt,          \* tracker of an allocate...release round trip
    \* ---- path-security gate
    base_path,                   \* the web root handed to check_path_secure
    test_path,                   \* the path handed to check_path_secure
    whitelisted_file_patterns,   \* server_settings.whitelisted_file_patterns
    blocked_file_patterns,       \* server_settings.blocked_file_patterns
    path_checked,                \* which check_path_secure has run
    path_secure,                 \* what it returned
    \* ---- running state, trigger registry, accept loops, ACME polling tasks
    rs,            \* the published RunningState: component -> generation
    rs_lock,       \* the RwLock around it: [readers, writer]
    reload,        \* set_new_running_state: [pc, new, k]
    built,         \* how many RunningState values have been constructed
    reader,        \* the request tasks reading the running state: [pc, seen]
    trig,          \* trigger registry: name -> [token, locked]
    cancelled,     \* name -> the tokens of that trigger that were cancelled
    shutdown_env,  \* the firing of "shutdown": [pc, fires]
    acme,          \* ACME polling task of each generation
    accept_loop,   \* accept loop of each generation's binding
    inflight,      \* accepted connections still being served, per accept loop
    \* ---- path normalization
    input_path,    \* the string handed to get_full_file_path
    full_path,     \* what it returned
    full_path_called, \* whether it has been called
    \* ---- TLS: the unified certificate resolver of one TLS binding
    account_email,    \* tls_settings.account_email
    sites,            \* the sites of the binding: site -> configuration
    resolver,         \* what build_unified_cert_resolver returned
    client_hello,     \* the last ClientHello handed to resolve
    resolved,         \* what resolve returned for it
    \* ---- the shared ACME manager
    acme_config,      \* the configuration initialize_shared_acme_manager reads
    acme_manager,     \* SHARED_ACME_MANAGER, with the result of the last initialization
    acme_reload,      \* a running initialize_shared_acme_manager, and what it found
    \* ---- the HTTP-01 challenge store
    challenges,       \* AcmeHttp01ChallengeStore.challenges: token -> entry
    added,            \* per token, the last add_challenge not followed by a remove
    lookup,           \* the try_handle_challenge call that has just returned
    cleanup_pc,       \* how far a running cleanup_expired has got through the map
    \* ---- the proxy processors and their load balancers
    proxy_processors, \* per processor id: upstream_servers and load_balancing_strategy
    load_balancers,   \* the running state's registry: processor id -> RoundRobin
    handled,          \* per processor id, the requests handled so far, in order
    proxy_requests,   \* the requests that run handle_request side by side
    \* ---- the external request handlers
    erh_config,       \* the configuration: the sites and the request_handlers
    erh_handlers,     \* HANDLERS: what start_external_request_handlers has started
    \* ---- the HTTP server and its bindings
    srv_bindings,     \* the bindings of the configured servers, in order
    srv_server,       \* where initialize_server is
    srv_binding_state,\* per binding: the state of its start_server_binding future
    srv_validation,   \* the Binding::validate call that has just returned
    \* ---- the proxy processor's answer
    proxy_response,   \* what the last handle_request returned, and to which inputs
    \* ---- the path functions of file_util
    fu_call,          \* the call that has just returned: its arguments and result
    \* ---- the shared ACME manager under concurrent calls
    singleton_manager,\* SHARED_ACME_MANAGER: the id of the stored manager, 0 for None
    polling_task,     \* per manager id: its polling task and polling_cancel_token
    am_call,          \* per caller: where its initialize / shutdown call is
    \* ---- the PHP handler: its worker tasks and monitor tasks
    sup_task,         \* per worker: where its worker task and its monitor task are
    sup_handler,      \* the handler: started, stopped, its request queue, triggers fired
    \* ---- errors of single connections
    srv_errors,       \* per binding: the kinds of error its connections have met
    \* ---- persist_generated_tls_for_site
    pt_files,         \* the files of the certs directory: path -> how much is written
    pt_store,         \* the configuration store: the paths the site (or admin portal) has
    pt_call           \* where the call is, its arguments and what it returned

pmVars == <<pm, php, pmlast, rt>>

pathVars == <<base_path, test_path, whitelisted_file_patterns, blocked_file_patterns,
              path_checked, path_secure>>

rsVars == <<rs, rs_lock, reload, built, reader, trig, cancelled, shutdown_env, acme,
            accept_loop, inflight>>

normVars == <<input_path, full_path, full_path_called>>

\* The variables of the machines that follow the first three.
tlsVars == <<account_email, sites, resolver, client_hello, resolved>>

amVars == <<acme_config, acme_manager, acme_reload>>

csVars == <<challenges, added, lookup, cleanup_pc>>

lbVars == <<proxy_processors, load_balancers, handled, proxy_requests>>

erhVars == <<erh_config, erh_handlers>>

srvVars == <<srv_bindings, srv_server, srv_binding_state, srv_validation>>

pxVars == <<proxy_response>>

fuVars == <<fu_call>>

amcVars == <<singleton_manager, polling_task, am_call>>

supVars == <<sup_task, sup_handler>>

accVars == <<srv_errors>>

ptVars == <<pt_files, pt_store, pt_call>>

moreVars == <<normVars, tlsVars, amVars, csVars, lbVars, erhVars, srvVars, pxVars, fuVars, amcVars, supVars, accVars, ptVars>>

vars == <<pmVars, pathVars, rsVars, moreVars>>

\* The path-security gate at rest (in the specifications of the other machines).
PathIdle ==
    /\ base_path = <<>>
    /\ test_path = <<>>
    /\ whitelisted_file_patterns = {}
    /\ blocked_file_patterns = {}
    /\ path_checked = "none"
    /\ path_secure = FALSE

\* Path normalization at rest.
NormIdle ==
    /\ input_path = <<>>
    /\ full_path = <<>>
    /\ full_path_called = FALSE

\* No certificate (Option::None), and the certificates there are.
NoCert == [kind |-> "none", site |-> ""]

\* No ClientHello yet.
NoHello == [is_acme_challenge |-> FALSE, server_name |-> <<"-">>, acme_has |-> FALSE]

\* The TLS binding at rest.
TlsIdle ==
    /\ account_email = <<>>
    /\ sites = <<>>
    /\ resolver = [state |-> "idle"]
    /\ client_hello = NoHello
    /\ resolved = NoCert

\* The shared ACME manager before any initialization.
AmIdle ==
    /\ acme_config = <<>>
    /\ acme_manager = [manager |-> "none", domains |-> {}, result |-> "not_called"]
    /\ acme_reload = [pc |-> "idle", previous |-> "none", previous_domains |-> {},
                      polling_cancelled |-> FALSE]

\* No entry under a token (DashMap::get gives None).
NoEntry == [key_authorization |-> "none", age |-> 0]

\* No try_handle_challenge call has just returned.
NoLookup == [path |-> <<>>, result |-> "not_called"]

\* The challenge store as AcmeHttp01ChallengeStore::new() makes it.
CsIdle ==
    /\ challenges = <<>>
    /\ added = <<>>
    /\ lookup = NoLookup
    /\ cleanup_pc = 0

\* No proxy processor is configured.
LbIdle ==
    /\ proxy_processors = <<>>
    /\ load_balancers = <<>>
    /\ handled = <<>>
    /\ proxy_requests = <<>>

\* HANDLERS is not initialized.
ErhIdle ==
    /\ erh_config = <<>>
    /\ erh_handlers = <<"unset">>

\* No validate call has returned.
NoValidation == [called |-> FALSE]

\* initialize_server has not been called.
SrvIdle ==
    /\ srv_bindings = <<>>
    /\ srv_server = [pc |-> "idle", k |-> 0]
    /\ srv_binding_state = <<>>
    /\ srv_validation = NoValidation

\* handle_request has not returned yet.
NoResponse == [called |-> FALSE]

PxIdle == proxy_response = NoResponse

\* No path function has been called.
NoCall == [fn |-> "none"]

FuIdle == fu_call = NoCall

\* How many managers create_shared_acme_manager builds.
MaxManagers == 3

ManagerIds == 1..MaxManagers

\* The tasks that call initialize_shared_acme_manager and
\* shutdown_shared_acme_manager (startup and reload, the shutdown path).
AmCallers == {"c1", "c2"}

NoAmCall == [pc |-> "idle", fn |-> "none", new_manager |-> 0]

\* SHARED_ACME_MANAGER is None, no manager was built, nobody calls.
AmcIdle ==
    /\ singleton_manager = 0
    /\ polling_task = [m \in ManagerIds |-> "none"]
    /\ am_call = [c \in AmCallers |-> NoAmCall]

\* PHPHandler::new(): no task is spawned yet, the request queue is open and
\* empty, stop was not called, no trigger was fired.
SupIdle ==
    /\ sup_task = [w \in {"php-worker-0"} |-> [worker |-> "none", monitor |-> "none"]]
    /\ sup_handler = [started |-> FALSE, stop |-> "none", stopped |-> {}, queue |-> 0,
                      fired |-> {}]

\* No binding, no connection, no error.
AccIdle == srv_errors = <<>>

\* persist_generated_tls_for_site is not called: no file of this call exists.
PtIdle ==
    /\ pt_files = << >>
    /\ pt_store = [cert_path |-> "", key_path |-> ""]
    /\ pt_call = [pc |-> "idle", is_admin |-> FALSE, result |-> "none"]

\* The machines that follow the first three, at rest.
MoreIdle ==
    /\ NormIdle
    /\ TlsIdle
    /\ AmIdle
    /\ CsIdle
    /\ LbIdle
    /\ ErhIdle
    /\ SrvIdle
    /\ PxIdle
    /\ FuIdle
    /\ AmcIdle
    /\ SupIdle
    /\ AccIdle
    /\ PtIdle

(***************************************************************************)
(*          RUNNING STATE, TRIGGERS, ACCEPT LOOPS: STATE AT START          *)
(***************************************************************************)

\* How many times set_new_running_state is called.
MaxReloads == 2

\* How many connections one accept loop has in flight at a time.
MaxInflight == 1

\* Generations of the running state: the one built at start, one per reload.
Gens == 1..(MaxReloads + 1)

\* The request tasks that read the running state.
Readers == {"r1", "r2"}

\* The fields of RunningState, in the order RunningState::new builds them.
ComponentOrder ==
    <<"access_log_buffer", "external_request_handlers", "http_servers", "file_cache">>

Components == {ComponentOrder[i] : i \in 1..Len(ComponentOrder)}

\* The named triggers the tasks subscribe to.
TriggerNames == {"shutdown", "stop_services"}

\* A CancellationToken::new() that no trigger holds (nobody ever cancels it).
PrivateToken == 0

NoComponents == [c \in Components |-> 0]

AcmeTaskNone ==
    [pc |-> "none", cancel_token_cancelled |-> FALSE,
     shutdown_token |-> PrivateToken, stop_services_token |-> PrivateToken,
     sub_fired |-> [n \in TriggerNames |-> 0]]

\* After RunningStateManager::new() and the first initialization: generation 1
\* is published, its accept loop and its ACME polling task are spawned.
RSInit ==
    /\ rs = [c \in Components |-> 1]
    /\ rs_lock = [readers |-> {}, writer |-> "none"]
    /\ reload = [pc |-> "idle", new |-> NoComponents, k |-> 0]
    /\ built = 1
    /\ reader = [r \in Readers |-> [pc |-> "idle", seen |-> NoComponents]]
    /\ trig = [n \in TriggerNames |-> [token |-> 1, locked |-> FALSE]]
    /\ cancelled = [n \in TriggerNames |-> {}]
    /\ shutdown_env = "idle"
    /\ acme = [g \in Gens |-> IF g = 1 THEN [AcmeTaskNone EXCEPT !.pc = "spawned"]
                              ELSE AcmeTaskNone]
    /\ accept_loop = [g \in Gens |-> IF g = 1 THEN "spawned" ELSE "none"]
    /\ inflight = [g \in Gens |-> 0]

\* The running-state machine at rest (in the specifications of the other machines).
RSIdle == RSInit

(***************************************************************************)
(*                              PORT MANAGER                               *)
(***************************************************************************)

\* PortManager::new(9000, 9002): the inclusive port range.
port_range_start == 9000

\* The upper end of the range (the default is 10000; the tests use 9001/9002).
port_range_end == 9002

PortRange == port_range_start .. port_range_end

\* Option<u16>::None
NoPort == 0

\* Ports a caller may hand to release_port: the range and one port on each side.
AnyPort == (port_range_start - 1) .. (port_range_end + 1)

\* Service ids of the PHP-CGI workers: format!("php-worker-{}", i).
Workers == {"php-worker-0"}

\* Service ids of the other users of the process-wide port manager.
Clients == {"service1", "service2"}

Services == Workers \cup Clients

SetMin(S) == CHOOSE x \in S : \A y \in S : x <= y

PMEmpty == [allocated_ports |-> {}, service_ports |-> [s \in Services |-> {}]]

\* A mutant of allocate_port: takes the lowest port the caller does not own itself.
AllocatePortIgnoresOwners(m, s) ==
    LET free == {p \in PortRange : p \notin m.service_ports[s]}
    IN  IF free = {} THEN [m |-> m, ret |-> NoPort]
        ELSE LET p == SetMin(free)
             IN  [m |-> [allocated_ports |-> m.allocated_ports \cup {p},
                         service_ports |-> [m.service_ports EXCEPT ![s] = @ \cup {p}]],
                  ret |-> p]

\* A mutant of allocate_port: takes the highest free port.
AllocatePortHighest(m, s) ==
    LET free == PortRange \ m.allocated_ports
    IN  IF free = {} THEN [m |-> m, ret |-> NoPort]
        ELSE LET p == CHOOSE x \in free : \A y \in free : y <= x
             IN  [m |-> [allocated_ports |-> m.allocated_ports \cup {p},
                         service_ports |-> [m.service_ports EXCEPT ![s] = @ \cup {p}]],
                  ret |-> p]

\* allocate_port(service_id) -> Option<port>: the first free port of the range,
\* recorded as owned by service_id; None when the range is exhausted.
AllocatePort(m, s) ==
    LET free == PortRange \ m.allocated_ports
    IN  IF free = {} THEN [m |-> m, ret |-> NoPort]
        ELSE LET p == SetMin(free)
             IN  [m |-> [allocated_ports |-> m.allocated_ports \cup {p},
                         service_ports |-> [m.service_ports EXCEPT ![s] = @ \cup {p}]],
                  ret |-> p]

\* A mutant of release_port: the port leaves its owner's list but stays allocated.
ReleasePortKeepsAllocated(m, p) ==
    [allocated_ports |-> m.allocated_ports,
     service_ports |-> [s \in Services |-> m.service_ports[s] \ {p}]]

\* A mutant of release_port: the retain() over the owners' lists is inverted.
ReleasePortInvertedRetain(m, p) ==
    [allocated_ports |-> m.allocated_ports \ {p},
     service_ports |-> [s \in Services |-> m.service_ports[s] \cap {p}]]

\* release_port(port): frees the port and drops it from its owner's list.
ReleasePort(m, p) ==
    [allocated_ports |-> m.allocated_ports \ {p},
     service_ports |-> [s \in Services |-> m.service_ports[s] \ {p}]]

\* A mutant of release_all_ports_for_service: every service's ports are released.
ReleaseAllPortsForEveryService(m, s) ==
    [m |-> [allocated_ports |-> m.allocated_ports \ m.service_ports[s],
            service_ports |-> [t \in Services |-> {}]],
     ret |-> m.service_ports[s]]

\* release_all_ports_for_service(service_id) -> [port]
ReleaseAllPortsForService(m, s) ==
    [m |-> [allocated_ports |-> m.allocated_ports \ m.service_ports[s],
            service_ports |-> [m.service_ports EXCEPT ![s] = {}]],
     ret |-> m.service_ports[s]]

\* available_port_count()
AvailablePortCount(m) ==
    (port_range_end - port_range_start + 1) - Cardinality(m.allocated_ports)

\* ---- history of the calls (not program state): the last call and its
\* ---- pre-state, and the progress of an allocate...release round trip.

RtNone == [stage |-> "none", pre |-> {}, out |-> {}]

LastNone == [op |-> "none", svc |-> "", port |-> NoPort, ret |-> {}, pre |-> PMEmpty]

\* After allocate_port returned ret from the state whose allocated set was pre.
TrackAlloc(t, pre, ret) ==
    IF ret = NoPort THEN RtNone
    ELSE IF t.stage = "allocating" THEN [t EXCEPT !.out = @ \cup {ret}]
    ELSE [stage |-> "allocating", pre |-> pre, out |-> {ret}]

\* After release_port(p).
TrackRelease(t, p) ==
    IF t.stage \in {"allocating", "releasing"} /\ p \in t.out
    THEN [t EXCEPT !.out = @ \ {p},
                   !.stage = IF t.out = {p} THEN "restored" ELSE "releasing"]
    ELSE RtNone

\* The calls, as every caller (a client or a worker) makes them.
CallAllocate(s) ==
    LET r == AllocatePort(pm, s)
    IN  /\ pm' = r.m
        /\ pmlast' = [op |-> "allocate", svc |-> s, port |-> r.ret,
                      ret |-> IF r.ret = NoPort THEN {} ELSE {r.ret}, pre |-> pm]
        /\ rt' = TrackAlloc(rt, pm.allocated_ports, r.ret)

CallRelease(p) ==
    /\ pm' = ReleasePort(pm, p)
    /\ pmlast' = [op |-> "release", svc |-> "", port |-> p, ret |-> {}, pre |-> pm]
    /\ rt' = TrackRelease(rt, p)

CallReleaseAll(s) ==
    LET r == ReleaseAllPortsForService(pm, s)
    IN  /\ pm' = r.m
        /\ pmlast' = [op |-> "release_all", svc |-> s, port |-> NoPort,
                      ret |-> r.ret, pre |-> pm]
        /\ rt' = RtNone

\* What a step of the port manager's machine leaves alone.
PMFrame == UNCHANGED <<pathVars, rsVars, moreVars>>

\* ---- PhpCgiProcess (one per worker, behind its own mutex: one call at a time)

PhpNew == [process |-> "none", assigned_port |-> NoPort, pc |-> "idle"]

\* start(), first half: allocate a port if none is assigned; Err when none is free.
StartAllocate(w) ==
    IF php[w].assigned_port = NoPort
    THEN LET r == AllocatePort(pm, w)
         IN  /\ CallAllocate(w)
             /\ php' = [php EXCEPT ![w].assigned_port = r.ret,
                                   ![w].pc = IF r.ret = NoPort THEN "idle" ELSE "spawn"]
    ELSE /\ php' = [php EXCEPT ![w].pc = "spawn"]
         /\ UNCHANGED <<pm, pmlast, rt>>

\* start() called on an idle worker (the worker task's first start).
PhpStart(w) ==
    /\ PMFrame
    /\ php[w].pc = "idle"
    /\ StartAllocate(w)

\* start(), second half: cmd.spawn() succeeds, or fails and the port is released.
PhpSpawn(w) ==
    /\ PMFrame
    /\ php[w].pc = "spawn"
    /\ \E ok \in BOOLEAN :
          IF ok
          THEN /\ php' = [php EXCEPT ![w].process = "running", ![w].pc = "idle"]
               /\ UNCHANGED <<pm, pmlast, rt>>
          ELSE /\ CallRelease(php[w].assigned_port)
               /\ php' = [php EXCEPT ![w].assigned_port = NoPort, ![w].pc = "idle"]

\* The child process exits on its own (try_wait will report it).
PhpChildExit(w) ==
    /\ PMFrame
    /\ php[w].process = "running"
    /\ php' = [php EXCEPT ![w].process = "exited"]
    /\ UNCHANGED <<pm, pmlast, rt>>

\* is_alive(): true for a running child; a child found exited is dropped.
IsAliveResult(w) == php[w].process = "running"

PhpIsAlive(w) ==
    /\ PMFrame
    /\ php[w].pc = "idle"
    /\ php' = [php EXCEPT ![w].process = IF IsAliveResult(w) THEN "running" ELSE "none"]
    /\ UNCHANGED <<pm, pmlast, rt>>

\* ensure_running(), up to the sleep: is_alive(), and when dead wait 1 s.
PhpEnsureRunning(w) ==
    /\ PMFrame
    /\ php[w].pc = "idle"
    /\ php' = [php EXCEPT ![w].process = IF IsAliveResult(w) THEN "running" ELSE "none",
                          ![w].pc = IF IsAliveResult(w) THEN "idle" ELSE "sleep"]
    /\ UNCHANGED <<pm, pmlast, rt>>

\* ensure_running(), after the sleep: self.start().
PhpRestart(w) ==
    /\ PMFrame
    /\ php[w].pc = "sleep"
    /\ StartAllocate(w)

\* stop(): kill the child, release the assigned port.
PhpStop(w) ==
    /\ PMFrame
    /\ php[w].pc = "idle"
    /\ IF php[w].assigned_port # NoPort
       THEN CallRelease(php[w].assigned_port)
       ELSE UNCHANGED <<pm, pmlast, rt>>
    /\ php' = [php EXCEPT ![w].process = "none", ![w].assigned_port = NoPort]

\* ---- the other users of the port manager
ClientAllocate(s) ==
    /\ PMFrame
    /\ CallAllocate(s)
    /\ UNCHANGED php

ClientRelease(p) ==
    /\ PMFrame
    /\ CallRelease(p)
    /\ UNCHANGED php

ClientReleaseAll(s) ==
    /\ PMFrame
    /\ CallReleaseAll(s)
    /\ UNCHANGED php

PMInit ==
    /\ pm = PMEmpty
    /\ php = [w \in Workers |-> PhpNew]
    /\ pmlast = LastNone
    /\ rt = RtNone

InitPM ==
    /\ PMInit
    /\ PathIdle
    /\ RSIdle
    /\ MoreIdle

NextPM ==
    \/ \E w \in Workers : PhpStart(w)
    \/ \E w \in Workers : PhpSpawn(w)
    \/ \E w \in Workers : PhpChildExit(w)
    \/ \E w \in Workers : PhpIsAlive(w)
    \/ \E w \in Workers : PhpEnsureRunning(w)
    \/ \E w \in Workers : PhpRestart(w)
    \/ \E w \in Workers : PhpStop(w)
    \/ \E s \in Clients : ClientAllocate(s)
    \/ \E p \in AnyPort : ClientRelease(p)
    \/ \E s \in Services : ClientReleaseAll(s)

SpecPM == InitPM /\ [][NextPM]_vars

(***************************************************************************)
(*                       PORT MANAGER: THE CLAIMS                          *)
(***************************************************************************)

\* C4: after any interleaving of allocate_port, release_port and
\* release_all_ports_for_service, every allocated port lies in the configured
\* inclusive range and no port is owned by two service ids at the same time
\* (the owners' lists partition the allocated set).
C4_PortsInRangeSingleOwner ==
    /\ \A p \in pm.allocated_ports : port_range_start <= p /\ p <= port_range_end
    /\ \A s \in Services : \A p \in pm.service_ports[s] :
          port_range_start <= p /\ p <= port_range_end
    /\ \A s, u \in Services : s # u => pm.service_ports[s] \cap pm.service_ports[u] = {}
    /\ pm.allocated_ports = UNION {pm.service_ports[s] : s \in Services}

\* Two services own ports at once and the range is exhausted.
C4_Witness ==
    /\ pm.allocated_ports = PortRange
    /\ Cardinality({s \in Services : pm.service_ports[s] # {}}) >= 2
    /\ \E w \in Workers : php[w].assigned_port # NoPort

\* C5: allocate_port returns the lowest free port of the range and records the
\* caller as its owner; it returns None, changing nothing, exactly when every
\* port of the range is allocated.
C5_AllocateLowestFree ==
    pmlast.op = "allocate" =>
        LET free == PortRange \ pmlast.pre.allocated_ports
        IN  /\ (pmlast.port = NoPort) <=> (free = {})
            /\ pmlast.port = NoPort => pm = pmlast.pre
            /\ pmlast.port # NoPort =>
                  /\ pmlast.port \in free
                  /\ \A q \in free : pmlast.port <= q
                  /\ pmlast.port \in pm.service_ports[pmlast.svc]
                  /\ pm.allocated_ports = pmlast.pre.allocated_ports \cup {pmlast.port}

\* An allocation that skipped nothing but had a lower port taken and a higher one free.
C5_Witness ==
    /\ pmlast.op = "allocate"
    /\ pmlast.port = port_range_start + 1
    /\ Cardinality(pmlast.pre.allocated_ports) = 1

\* The exhausted range answered None.
C5_WitnessExhausted ==
    /\ pmlast.op = "allocate"
    /\ pmlast.port = NoPort

\* C6: allocating a sequence of ports and then releasing the same ports (in any
\* order) restores the previous set of allocated ports and the previous
\* available_port_count, and the port released last can be allocated again.
C6_AllocateReleaseRestores ==
    rt.stage = "restored" =>
        /\ pm.allocated_ports = rt.pre
        /\ AvailablePortCount(pm) = AvailablePortCount(pmlast.pre) + 1
        /\ AvailablePortCount(pm) =
              (port_range_end - port_range_start + 1) - Cardinality(rt.pre)
        /\ pmlast.port \notin pm.allocated_ports
        /\ \A s \in Services : AllocatePort(pm, s).ret # NoPort

\* A round trip that started from a state with a port already taken.
C6_Witness ==
    /\ rt.stage = "restored"
    /\ rt.pre # {}
    /\ pmlast.op = "release"

\* C7: release_all_ports_for_service(s) returns exactly the ports s owned,
\* frees all of them, and leaves every port of another service with its owner.
C7_ReleaseAllFrame ==
    pmlast.op = "release_all" =>
        /\ pmlast.ret = pmlast.pre.service_ports[pmlast.svc]
        /\ pm.service_ports[pmlast.svc] = {}
        /\ pmlast.ret \cap pm.allocated_ports = {}
        /\ \A u \in Services \ {pmlast.svc} :
              /\ pm.service_ports[u] = pmlast.pre.service_ports[u]
              /\ pm.service_ports[u] \subseteq pm.allocated_ports

\* A service with two ports released while another service keeps its port.
C7_Witness ==
    /\ pmlast.op = "release_all"
    /\ Cardinality(pmlast.ret) = 2
    /\ pm.allocated_ports # {}

\* C8: release_port of a port that is not allocated (never allocated, already
\* released, or outside the range) changes no ownership and no count.
C8_ReleaseUnallocatedNoop ==
    (pmlast.op = "release" /\ pmlast.port \notin pmlast.pre.allocated_ports) =>
        /\ pm = pmlast.pre
        /\ AvailablePortCount(pm) = AvailablePortCount(pmlast.pre)

\* A port outside the range released while ports are allocated.
C8_Witness ==
    /\ pmlast.op = "release"
    /\ pmlast.port = port_range_end + 1
    /\ pmlast.pre.allocated_ports # {}
    /\ \E w \in Workers : php[w].assigned_port # NoPort

(***************************************************************************)
(*                          PATH-SECURITY GATE                             *)
(* Strings are sequences of one-character strings.                         *)
(***************************************************************************)

\* The longest test path drawn.
MaxPathLen == 4

\* The characters paths are made of: both separators, and a letter in both cases.
Chars == {"/", "\\", "w", "x", "X"}

\* The paths handed to check_path_secure.
TestPaths == UNION {[1..k -> Chars] : k \in 1..MaxPathLen}

\* The web roots: plain, with a trailing slash, Windows style.
BasePaths == {<<"/", "w">>, <<"/", "w", "/">>, <<"\\", "w">>}

\* The configured pattern lists.
WhitelistChoices == {{}, {<<"*", "/", "x">>}}

BlocklistChoices == {{}, {<<"w", "*">>}, {<<"X">>}}

\* str::replace('\\', "/")
ReplaceBackslash(s) == [i \in 1..Len(s) |-> IF s[i] = "\\" THEN "/" ELSE s[i]]

RECURSIVE TrimEndSlashes(_)
\* str::trim_end_matches('/')
TrimEndSlashes(s) ==
    IF s # <<>> /\ s[Len(s)] = "/" THEN TrimEndSlashes(SubSeq(s, 1, Len(s) - 1)) ELSE s

RECURSIVE TrimStartSlashes(_)
\* str::trim_start_matches('/')
TrimStartSlashes(s) ==
    IF s # <<>> /\ Head(s) = "/" THEN TrimStartSlashes(Tail(s)) ELSE s

\* str::starts_with
StartsWith(s, prefix) ==
    /\ Len(prefix) <= Len(s)
    /\ SubSeq(s, 1, Len(prefix)) = prefix

\* str::contains
Contains(s, sub) ==
    \E i \in 0..(Len(s) - Len(sub)) : SubSeq(s, i + 1, i + Len(sub)) = sub

\* char::to_lowercase, over the letters of Chars
ToLowerChar(c) == IF c = "X" THEN "x" ELSE IF c = "W" THEN "w" ELSE c

\* str::to_lowercase
ToLowercase(s) == [i \in 1..Len(s) |-> ToLowerChar(s[i])]

RECURSIVE RemoveAsterisks(_)
\* str::replace("*", "")
RemoveAsterisks(s) ==
    IF s = <<>> THEN <<>>
    ELSE IF Head(s) = "*" THEN RemoveAsterisks(Tail(s))
    ELSE <<Head(s)>> \o RemoveAsterisks(Tail(s))

RECURSIVE WildcardIsMatchCaseSensitive(_, _)
\* A mutant of the matcher: built without case_insensitive(true).
WildcardIsMatchCaseSensitive(pattern, s) ==
    IF pattern = <<>> THEN s = <<>>
    ELSE IF Head(pattern) = "*"
         THEN \/ WildcardIsMatchCaseSensitive(Tail(pattern), s)
              \/ s # <<>> /\ WildcardIsMatchCaseSensitive(pattern, Tail(s))
    ELSE /\ s # <<>>
         /\ (Head(pattern) = "?" \/ Head(pattern) = Head(s))
         /\ WildcardIsMatchCaseSensitive(Tail(pattern), Tail(s))

RECURSIVE WildcardIsMatch(_, _)
\* Wildcard::is_match of a pattern built with case_insensitive(true):
\* `*` matches any run of symbols, `?` exactly one, a letter itself in either case.
WildcardIsMatch(pattern, s) ==
    IF pattern = <<>> THEN s = <<>>
    ELSE IF Head(pattern) = "*"
         THEN \/ WildcardIsMatch(Tail(pattern), s)
              \/ s # <<>> /\ WildcardIsMatch(pattern, Tail(s))
    ELSE /\ s # <<>>
         /\ (Head(pattern) = "?" \/ ToLowerChar(Head(pattern)) = ToLowerChar(Head(s)))
         /\ WildcardIsMatch(Tail(pattern), Tail(s))

\* BlockedFilePatternMatching::is_file_pattern_blocked
IsFilePatternBlocked(file_name) ==
    \E wc \in blocked_file_patterns : WildcardIsMatch(wc, file_name)

\* WhitelistedFilePatternMatching::is_file_pattern_whitelisted
IsFilePatternWhitelisted(file_name) ==
    \E wc \in whitelisted_file_patterns : WildcardIsMatch(wc, file_name)

\* grux_file_util::split_path: (base, remaining without leading slashes) or ("", path)
SplitPath(base, path_str) ==
    LET base_path_cleaned == TrimEndSlashes(ReplaceBackslash(base))
        path_str_cleaned == ReplaceBackslash(path_str)
    IN  IF StartsWith(path_str_cleaned, base_path_cleaned)
        THEN <<base_path_cleaned,
               TrimStartSlashes(SubSeq(path_str_cleaned, Len(base_path_cleaned) + 1,
                                       Len(path_str_cleaned)))>>
        ELSE <<<<>>, path_str_cleaned>>

\* file::file_util::split_path: the remaining part keeps its leading slash.
FileSplitPath(base, path_str) ==
    LET base_path_cleaned == TrimEndSlashes(ReplaceBackslash(base))
        path_str_cleaned == ReplaceBackslash(path_str)
    IN  IF StartsWith(path_str_cleaned, base_path_cleaned)
        THEN <<base_path_cleaned,
               SubSeq(path_str_cleaned, Len(base_path_cleaned) + 1, Len(path_str_cleaned))>>
        ELSE <<<<>>, path_str_cleaned>>

\* A mutant of check_path_secure: the blocklist is consulted before the whitelist.
CheckPathSecureBlocklistFirst(base, test) ==
    LET base_path_cleaned == TrimEndSlashes(ReplaceBackslash(base))
        test_path_cleaned == ReplaceBackslash(test)
        file == SplitPath(base_path_cleaned, test_path_cleaned)[2]
    IN  IF ~StartsWith(test_path_cleaned, base_path_cleaned) THEN FALSE
        ELSE IF IsFilePatternBlocked(file) THEN FALSE
        ELSE TRUE

\* grux_file_util::check_path_secure
CheckPathSecure(base, test) ==
    LET base_path_cleaned == TrimEndSlashes(ReplaceBackslash(base))
        test_path_cleaned == ReplaceBackslash(test)
        file == SplitPath(base_path_cleaned, test_path_cleaned)[2]
    IN  IF ~StartsWith(test_path_cleaned, base_path_cleaned) THEN FALSE
        ELSE IF IsFilePatternWhitelisted(test_path_cleaned) THEN TRUE
        ELSE IF IsFilePatternBlocked(file) THEN FALSE
        ELSE TRUE

\* ServerSettings::sanitize: the blocked patterns lower-cased, their asterisks removed.
SanitizedBlockedFilePatterns ==
    {RemoveAsterisks(ToLowercase(pat)) : pat \in blocked_file_patterns}

\* file::file_util::check_path_secure: no whitelist; a blocked pattern is a
\* substring of the lower-cased remaining part.
FileCheckPathSecure(base, test) ==
    LET file == FileSplitPath(base, test)[2]
        file_lowercase == ToLowercase(file)
    IN  IF ~StartsWith(test, base) THEN FALSE
        ELSE IF \E pat \in SanitizedBlockedFilePatterns : Contains(file_lowercase, pat)
             THEN FALSE
        ELSE TRUE

\* What a step of the gate leaves alone.
PathFrame == UNCHANGED <<pmVars, rsVars, moreVars>>

PathInputsUnchanged ==
    UNCHANGED <<base_path, test_path, whitelisted_file_patterns, blocked_file_patterns>>

\* A request reaches grux_file_util::check_path_secure.
CallCheckPathSecure ==
    /\ path_checked = "none"
    /\ path_checked' = "grux_file_util"
    /\ path_secure' = CheckPathSecure(base_path, test_path)
    /\ PathInputsUnchanged
    /\ PathFrame

\* A request reaches file::file_util::check_path_secure.
CallFileCheckPathSecure ==
    /\ path_checked = "none"
    /\ path_checked' = "file_util"
    /\ path_secure' = FileCheckPathSecure(base_path, test_path)
    /\ PathInputsUnchanged
    /\ PathFrame

PathInit ==
    /\ base_path \in BasePaths
    /\ test_path \in TestPaths
    /\ whitelisted_file_patterns \in WhitelistChoices
    /\ blocked_file_patterns \in BlocklistChoices
    /\ path_checked = "none"
    /\ path_secure = FALSE

\* The port manager at rest (in the specifications of the other machines).
PMIdle == PMInit

InitPath ==
    /\ PathInit
    /\ PMIdle
    /\ RSIdle
    /\ MoreIdle

NextPath ==
    \/ CallCheckPathSecure
    \/ CallFileCheckPathSecure

SpecPath == InitPath /\ [][NextPath]_vars

(***************************************************************************)
(*                    PATH-SECURITY GATE: THE CLAIMS                       *)
(***************************************************************************)

RECURSIVE PathComponents(_, _)
\* The components of a path: the runs of characters between separators
\* (cur is the component being read).
PathComponents(s, cur) ==
    IF s = <<>> THEN (IF cur = <<>> THEN <<>> ELSE <<cur>>)
    ELSE IF Head(s) \in {"/", "\\"}
         THEN (IF cur = <<>> THEN <<>> ELSE <<cur>>) \o PathComponents(Tail(s), <<>>)
    ELSE PathComponents(Tail(s), Append(cur, Head(s)))

IsAbsolutePath(s) == s # <<>> /\ Head(s) \in {"/", "\\"}

\* p is base itself or a descendant of base, component by component.
IsUnderWebRoot(base, p) ==
    LET b == PathComponents(base, <<>>)
        c == PathComponents(p, <<>>)
    IN  /\ IsAbsolutePath(base) <=> IsAbsolutePath(p)
        /\ Len(b) <= Len(c)
        /\ SubSeq(c, 1, Len(b)) = b

\* A normalized path, as get_full_file_path returns it: forward slashes only,
\* no duplicate separator.
IsNormalizedPath(s) ==
    /\ \A i \in 1..Len(s) : s[i] # "\\"
    /\ \A i \in 1..(Len(s) - 1) : ~(s[i] = "/" /\ s[i + 1] = "/")

\* C9: a path that is neither the web root nor a descendant of it
\* (component-wise) is never reported secure, whatever the pattern lists hold.
C9_OutsideWebRootRejected ==
    (path_checked # "none" /\ ~IsUnderWebRoot(base_path, test_path)) =>
        path_secure = FALSE

\* The same statement for grux_file_util::check_path_secure alone, with both
\* pattern lists empty: the prefix test by itself lets a sibling directory through.
C9_OutsideWebRootRejectedNoPatterns ==
    (/\ path_checked = "grux_file_util"
     /\ whitelisted_file_patterns = {}
     /\ blocked_file_patterns = {}
     /\ ~IsUnderWebRoot(base_path, test_path)) =>
        path_secure = FALSE

\* The same statement for file::file_util::check_path_secure alone.
C9_OutsideWebRootRejectedFileUtil ==
    (path_checked = "file_util" /\ ~IsUnderWebRoot(base_path, test_path)) =>
        path_secure = FALSE

\* A sibling of the web root whose name starts with the web root's name is
\* reported secure: /wx against the web root /w.
C9_Witness ==
    /\ path_checked = "grux_file_util"
    /\ base_path = <<"/", "w">>
    /\ test_path = <<"/", "w", "x">>
    /\ path_secure = TRUE

\* Case-insensitive glob matching, stated over the positions of the text a
\* prefix of the pattern can reach (independent of the matcher's recursion).
RECURSIVE GlobReach(_, _, _)
GlobReach(pattern, s, k) ==
    IF k = 0 THEN {0}
    ELSE LET before == GlobReach(pattern, s, k - 1)
         IN  IF pattern[k] = "*"
             THEN {j \in 0..Len(s) : \E i \in before : i <= j}
             ELSE {i + 1 : i \in {j \in before :
                                    /\ j + 1 <= Len(s)
                                    /\ \/ pattern[k] = "?"
                                       \/ pattern[k] = s[j + 1]}}

GlobMatchesIgnoringCase(pattern, s) ==
    Len(s) \in GlobReach(ToLowercase(pattern), ToLowercase(s), Len(pattern))

\* The part of a path after the web root.
PartAfterWebRoot(base, p) ==
    LET root == TrimEndSlashes(ReplaceBackslash(base))
    IN  TrimStartSlashes(SubSeq(ReplaceBackslash(p), Len(root) + 1, Len(p)))

C10_WitnessBlocked ==
    /\ path_checked = "grux_file_util"
    /\ test_path = <<"/", "w", "/", "x">>
    /\ whitelisted_file_patterns = {}
    /\ blocked_file_patterns = {<<"X">>}
    /\ path_secure = FALSE

(***************************************************************************)
(*        RUNNING STATE, TRIGGERS, ACCEPT LOOPS, ACME POLLING TASKS        *)
(***************************************************************************)

\* What a step of this machine leaves alone.
RSFrame == UNCHANGED <<pmVars, pathVars, moreVars>>

\* ---- trigger registry: each named trigger is a token behind its own lock.

\* How many times trigger n has been fired (each firing cancels one token).
Fired(n) == Cardinality(cancelled[n])

\* run_trigger(n), first half: take the trigger's lock, cancel its token.
RunTriggerCancel(n) ==
    /\ ~trig[n].locked
    /\ trig' = [trig EXCEPT ![n].locked = TRUE]
    /\ cancelled' = [cancelled EXCEPT ![n] = @ \cup {trig[n].token}]

\* run_trigger(n), second half: install a fresh token, release the lock.
RunTriggerInstall(n) ==
    /\ trig[n].locked
    /\ trig' = [trig EXCEPT ![n] = [token |-> @.token + 1, locked |-> FALSE]]
    /\ UNCHANGED cancelled

\* A mutant of the task's try_read: the token is cloned even while the lock is held.
TryReadTokenIgnoringLock(n) == trig[n].token

\* get_trigger(n).map(|t| t.try_read().map(clone).unwrap_or_else(new token)):
\* a clone of the current token, or a private token when the lock is held.
TryReadToken(n) == IF trig[n].locked THEN PrivateToken ELSE trig[n].token

\* ---- the RwLock around the running state (tokio: a queued writer goes first)

\* A mutant of write(): the writer does not wait for the readers to drain.
WriteLockFreeIgnoringReaders == TRUE

\* write().await is granted once no reader holds the lock.
WriteLockFree == rs_lock.readers = {}

\* A mutant of the RwLock: a reader-preferring lock, which grants read().await
\* while a writer waits.
ReadLockFreeReaderPreferred == rs_lock.writer # "held"

\* read().await is granted while no writer holds the lock or waits for it.
ReadLockFree == rs_lock.writer = "none"

\* A mutant of get_running_state_unlocked: it takes the read lock of the
\* running state.
GetRunningStateUnlockedReadLocked == ReadLockFree

\* get_running_state_manager().await.get_running_state_unlocked().await is
\* granted at once: it hands out the running state without its lock.
GetRunningStateUnlocked == TRUE

\* ---- RunningStateManager::set_new_running_state

ReloadCall ==
    /\ reload.pc = "idle"
    /\ built <= MaxReloads
    /\ reload' = [reload EXCEPT !.pc = "write_wait"]
    /\ rs_lock' = [rs_lock EXCEPT !.writer = "waiting"]
    /\ UNCHANGED <<rs, built, reader, trig, cancelled, shutdown_env, acme, accept_loop, inflight>>
    /\ RSFrame

\* A mutant of set_new_running_state: the new state is set up as soon as the
\* write lock is held, stop_services is not fired first.
ReloadAcquireWriteThenConstruct ==
    /\ reload.pc = "write_wait"
    /\ WriteLockFree
    /\ reload' = [pc |-> "new", new |-> NoComponents, k |-> 1]
    /\ rs_lock' = [rs_lock EXCEPT !.writer = "held"]
    /\ UNCHANGED <<rs, built, reader, trig, cancelled, shutdown_env, acme, accept_loop, inflight>>
    /\ RSFrame

\* let mut current_state = self.current_running_state.write().await
ReloadAcquireWrite ==
    /\ reload.pc = "write_wait"
    /\ WriteLockFree
    /\ reload' = [reload EXCEPT !.pc = "fire"]
    /\ rs_lock' = [rs_lock EXCEPT !.writer = "held"]
    /\ UNCHANGED <<rs, built, reader, trig, cancelled, shutdown_env, acme, accept_loop, inflight>>
    /\ RSFrame

\* triggers.run_trigger("stop_services").await
ReloadRunTrigger ==
    /\ reload.pc = "fire"
    /\ RunTriggerCancel("stop_services")
    /\ reload' = [reload EXCEPT !.pc = "fire_install"]
    /\ UNCHANGED <<rs, rs_lock, built, reader, shutdown_env, acme, accept_loop, inflight>>
    /\ RSFrame

ReloadRunTriggerInstall ==
    /\ reload.pc = "fire_install"
    /\ RunTriggerInstall("stop_services")
    /\ reload' = [reload EXCEPT !.pc = "sleep"]
    /\ UNCHANGED <<rs, rs_lock, built, reader, shutdown_env, acme, accept_loop, inflight>>
    /\ RSFrame

\* tokio::time::sleep(100 ms)
ReloadSleep ==
    /\ reload.pc = "sleep"
    /\ reload' = [pc |-> "new", new |-> NoComponents, k |-> 1]
    /\ UNCHANGED <<rs, rs_lock, built, reader, trig, cancelled, shutdown_env, acme,
                   accept_loop, inflight>>
    /\ RSFrame

\* The (re)initialization of the shared ACME manager while the new state is set
\* up: the old manager's polling_cancel_token is cancelled, a new polling task
\* is spawned.
ReloadInitAcme ==
    /\ reload.pc = "new"
    /\ ComponentOrder[reload.k] = "http_servers"
    /\ acme[built + 1].pc = "none"
    /\ acme' = [acme EXCEPT ![built].cancel_token_cancelled = TRUE,
                            ![built + 1].pc = "spawned"]
    /\ UNCHANGED <<rs, rs_lock, reload, built, reader, trig, cancelled, shutdown_env,
                   accept_loop, inflight>>
    /\ RSFrame

\* RunningState::new(): the components are built one after the other; building
\* http_servers spawns the accept loop of the binding.
ReloadConstruct ==
    /\ reload.pc = "new"
    /\ LET c == ComponentOrder[reload.k]
           last == reload.k = Len(ComponentOrder)
       IN  /\ c = "http_servers" => acme[built + 1].pc # "none"
           /\ reload' = [pc |-> IF last THEN "assign" ELSE "new",
                         new |-> [reload.new EXCEPT ![c] = built + 1],
                         k |-> IF last THEN 1 ELSE reload.k + 1]
           /\ accept_loop' = IF c = "http_servers"
                             THEN [accept_loop EXCEPT ![built + 1] = "spawned"]
                             ELSE accept_loop
           /\ built' = IF last THEN built + 1 ELSE built
    /\ UNCHANGED <<rs, rs_lock, reader, trig, cancelled, shutdown_env, acme, inflight>>
    /\ RSFrame

\* *current_state = <the new RunningState>: the value is moved in field by field.
ReloadAssign ==
    /\ reload.pc = "assign"
    /\ LET c == ComponentOrder[reload.k]
           last == reload.k = Len(ComponentOrder)
       IN  /\ rs' = [rs EXCEPT ![c] = reload.new[c]]
           /\ reload' = [reload EXCEPT !.pc = IF last THEN "unlock" ELSE "assign",
                                       !.k = IF last THEN 0 ELSE reload.k + 1]
    /\ UNCHANGED <<rs_lock, built, reader, trig, cancelled, shutdown_env, acme,
                   accept_loop, inflight>>
    /\ RSFrame

\* The write guard is dropped at the end of set_new_running_state.
ReloadRelease ==
    /\ reload.pc = "unlock"
    /\ reload' = [pc |-> "idle", new |-> NoComponents, k |-> 0]
    /\ rs_lock' = [rs_lock EXCEPT !.writer = "none"]
    /\ UNCHANGED <<rs, built, reader, trig, cancelled, shutdown_env, acme, accept_loop, inflight>>
    /\ RSFrame

\* ---- a request task reading the running state under a read lock

\* running_state.read().await
ReaderAcquire(r) ==
    /\ reader[r].pc = "idle"
    /\ ReadLockFree
    /\ rs_lock' = [rs_lock EXCEPT !.readers = @ \cup {r}]
    /\ reader' = [reader EXCEPT ![r] = [pc |-> "reading", seen |-> NoComponents]]
    /\ UNCHANGED <<rs, reload, built, trig, cancelled, shutdown_env, acme, accept_loop, inflight>>
    /\ RSFrame

\* get_external_request_handlers / get_access_log_buffer / get_file_cache / http_servers
ReaderGet(r, c) ==
    /\ reader[r].pc = "reading"
    /\ reader' = [reader EXCEPT ![r].seen[c] = rs[c]]
    /\ UNCHANGED <<rs, rs_lock, reload, built, trig, cancelled, shutdown_env, acme,
                   accept_loop, inflight>>
    /\ RSFrame

\* The read guard is dropped.
ReaderRelease(r) ==
    /\ reader[r].pc = "reading"
    /\ rs_lock' = [rs_lock EXCEPT !.readers = @ \ {r}]
    /\ reader' = [reader EXCEPT ![r] = [pc |-> "idle", seen |-> NoComponents]]
    /\ UNCHANGED <<rs, reload, built, trig, cancelled, shutdown_env, acme, accept_loop, inflight>>
    /\ RSFrame

\* ---- the "shutdown" trigger, fired once when the process is told to exit

ShutdownFire ==
    /\ shutdown_env = "idle"
    /\ RunTriggerCancel("shutdown")
    /\ shutdown_env' = "firing"
    /\ UNCHANGED <<rs, rs_lock, reload, built, reader, acme, accept_loop, inflight>>
    /\ RSFrame

ShutdownFireInstall ==
    /\ shutdown_env = "firing"
    /\ RunTriggerInstall("shutdown")
    /\ shutdown_env' = "fired"
    /\ UNCHANGED <<rs, rs_lock, reload, built, reader, acme, accept_loop, inflight>>
    /\ RSFrame

\* ---- spawn_acme_polling_task: the body of the spawned task

AcmeSubscribeShutdown(g) ==
    /\ acme[g].pc = "spawned"
    /\ acme' = [acme EXCEPT ![g].pc = "subscribing",
                            ![g].shutdown_token = TryReadToken("shutdown"),
                            ![g].sub_fired["shutdown"] = Fired("shutdown")]
    /\ UNCHANGED <<rs, rs_lock, reload, built, reader, trig, cancelled, shutdown_env,
                   accept_loop, inflight>>
    /\ RSFrame

AcmeSubscribeStopServices(g) ==
    /\ acme[g].pc = "subscribing"
    /\ acme' = [acme EXCEPT ![g].pc = "polling",
                            ![g].stop_services_token = TryReadToken("stop_services"),
                            ![g].sub_fired["stop_services"] = Fired("stop_services")]
    /\ UNCHANGED <<rs, rs_lock, reload, built, reader, trig, cancelled, shutdown_env,
                   accept_loop, inflight>>
    /\ RSFrame

\* The select! loop breaks on any of its three tokens.
AcmePollingCancelled(g) ==
    \/ acme[g].cancel_token_cancelled
    \/ acme[g].shutdown_token \in cancelled["shutdown"]
    \/ acme[g].stop_services_token \in cancelled["stop_services"]

AcmePollingExit(g) ==
    /\ acme[g].pc = "polling"
    /\ AcmePollingCancelled(g)
    /\ acme' = [acme EXCEPT ![g] = [AcmeTaskNone EXCEPT !.pc = "ended"]]
    /\ UNCHANGED <<rs, rs_lock, reload, built, reader, trig, cancelled, shutdown_env,
                   accept_loop, inflight>>
    /\ RSFrame

\* ---- start_server_binding: the accept loop of the binding

\* TcpListener::bind(addr).await.unwrap(): fails (and the task panics) while
\* another accept loop still listens on the address.
AcceptLoopBind(g) ==
    /\ accept_loop[g] = "spawned"
    /\ accept_loop' = [accept_loop EXCEPT ![g] =
                          IF \E h \in Gens : accept_loop[h] = "accepting"
                          THEN "bind_failed" ELSE "accepting"]
    /\ UNCHANGED <<rs, rs_lock, reload, built, reader, trig, cancelled, shutdown_env,
                   acme, inflight>>
    /\ RSFrame

\* loop { listener.accept().await; tokio::task::spawn(serve_connection) }
AcceptLoopAccept(g) ==
    /\ accept_loop[g] = "accepting"
    /\ inflight[g] < MaxInflight
    /\ inflight' = [inflight EXCEPT ![g] = @ + 1]
    /\ UNCHANGED <<rs, rs_lock, reload, built, reader, trig, cancelled, shutdown_env,
                   acme, accept_loop>>
    /\ RSFrame

\* serve_connection(io, svc) returns: the connection has run to completion.
ConnectionComplete(g) ==
    /\ inflight[g] > 0
    /\ inflight' = [inflight EXCEPT ![g] = @ - 1]
    /\ UNCHANGED <<rs, rs_lock, reload, built, reader, trig, cancelled, shutdown_env,
                   acme, accept_loop>>
    /\ RSFrame

InitRS ==
    /\ RSInit
    /\ PMIdle
    /\ PathIdle
    /\ MoreIdle

\* Reloads against request tasks that read the running state.
NextRS ==
    \/ ReloadCall
    \/ ReloadAcquireWrite
    \/ ReloadRunTrigger
    \/ ReloadRunTriggerInstall
    \/ ReloadSleep
    \/ ReloadInitAcme
    \/ ReloadConstruct
    \/ ReloadAssign
    \/ ReloadRelease
    \/ \E r \in Readers : ReaderAcquire(r)
    \/ \E r \in Readers, c \in Components : ReaderGet(r, c)
    \/ \E r \in Readers : ReaderRelease(r)

SpecRS == InitRS /\ [][NextRS]_vars

\* Reloads and shutdown against the tasks that subscribe to the triggers.
NextTriggers ==
    \/ ReloadCall
    \/ ReloadAcquireWrite
    \/ ReloadRunTrigger
    \/ ReloadRunTriggerInstall
    \/ ReloadSleep
    \/ ReloadInitAcme
    \/ ReloadConstruct
    \/ ReloadAssign
    \/ ReloadRelease
    \/ ShutdownFire
    \/ ShutdownFireInstall
    \/ \E g \in Gens : AcmeSubscribeShutdown(g)
    \/ \E g \in Gens : AcmeSubscribeStopServices(g)
    \/ \E g \in Gens : AcmePollingExit(g)

SpecTriggers == InitRS /\ [][NextTriggers]_vars

\* Reloads against the accept loops and their connections.
NextServe ==
    \/ ReloadCall
    \/ ReloadAcquireWrite
    \/ ReloadRunTrigger
    \/ ReloadRunTriggerInstall
    \/ ReloadSleep
    \/ ReloadInitAcme
    \/ ReloadConstruct
    \/ ReloadAssign
    \/ ReloadRelease
    \/ \E g \in Gens : AcceptLoopBind(g)
    \/ \E g \in Gens : AcceptLoopAccept(g)
    \/ \E g \in Gens : ConnectionComplete(g)

SpecServe == InitRS /\ [][NextServe]_vars

\* The runtime schedules every task that can run; a client that connects is
\* served to completion and clients keep connecting.
FairSpecServe ==
    /\ SpecServe
    /\ WF_vars(ReloadAcquireWrite) /\ WF_vars(ReloadRunTrigger)
    /\ WF_vars(ReloadRunTriggerInstall) /\ WF_vars(ReloadSleep)
    /\ WF_vars(ReloadInitAcme) /\ WF_vars(ReloadConstruct)
    /\ WF_vars(ReloadAssign) /\ WF_vars(ReloadRelease)
    /\ \A g \in Gens : WF_vars(AcceptLoopBind(g))
    /\ \A g \in Gens : WF_vars(AcceptLoopAccept(g))
    /\ \A g \in Gens : WF_vars(ConnectionComplete(g))

\* build_tls_acceptor, called for a TLS binding while http_servers is set up:
\* it fetches the running state, then the sites of the binding.
ReloadBuildTlsAcceptor ==
    /\ reload.pc = "new"
    /\ ComponentOrder[reload.k] = "http_servers"
    /\ GetRunningStateUnlocked
    /\ ReloadConstruct

\* The other components of RunningState::new.
ReloadConstructOther ==
    /\ reload.pc = "new"
    /\ ComponentOrder[reload.k] # "http_servers"
    /\ ReloadConstruct

\* Reloads against request tasks, the construction calling build_tls_acceptor.
NextReload ==
    \/ ReloadCall
    \/ ReloadAcquireWrite
    \/ ReloadRunTrigger
    \/ ReloadRunTriggerInstall
    \/ ReloadSleep
    \/ ReloadInitAcme
    \/ ReloadBuildTlsAcceptor
    \/ ReloadConstructOther
    \/ ReloadAssign
    \/ ReloadRelease
    \/ \E r \in Readers : ReaderAcquire(r)
    \/ \E r \in Readers, c \in Components : ReaderGet(r, c)
    \/ \E r \in Readers : ReaderRelease(r)

SpecReload == InitRS /\ [][NextReload]_vars

\* The runtime schedules every task that can run, and a request task that
\* holds the read lock comes to its end and drops it; nothing is assumed
\* about when, or how often, request tasks ask for the lock.
FairSpecReload ==
    /\ SpecReload
    /\ WF_vars(ReloadAcquireWrite) /\ WF_vars(ReloadRunTrigger)
    /\ WF_vars(ReloadRunTriggerInstall) /\ WF_vars(ReloadSleep)
    /\ WF_vars(ReloadInitAcme) /\ WF_vars(ReloadBuildTlsAcceptor)
    /\ WF_vars(ReloadConstructOther)
    /\ WF_vars(ReloadAssign) /\ WF_vars(ReloadRelease)
    /\ \A r \in Readers : WF_vars(ReaderRelease(r))

(***************************************************************************)
(*              CLAIMS ABOUT THE RUNNING STATE AND THE TRIGGERS            *)
(***************************************************************************)

\* C1: between acquiring and releasing a read lock, every component a reader
\* obtains belongs to the same RunningState, whatever the interleaving of the
\* readers with set_new_running_state.
C1_ReadersSeeOneRunningState ==
    \A r \in Readers :
        reader[r].pc = "reading" =>
            \A c, d \in Components :
                (reader[r].seen[c] # 0 /\ reader[r].seen[d] # 0)
                    => reader[r].seen[c] = reader[r].seen[d]

\* C1 witness: after a reload, a reader holds the read lock and has obtained the
\* new bindings and the new cache while a later reload waits for the write lock.
C1_Witness ==
    \E r \in Readers :
        /\ reader[r].pc = "reading"
        /\ reader[r].seen["http_servers"] = 2
        /\ reader[r].seen["file_cache"] = 2
        /\ reader[r].seen["access_log_buffer"] = 2
        /\ reload.pc = "write_wait"

\* The token held by polling task g for trigger n.
AcmeToken(g, n) ==
    IF n = "shutdown" THEN acme[g].shutdown_token ELSE acme[g].stop_services_token

\* Polling task g has run its subscription to trigger n and still holds the token.
AcmeSubscribed(g, n) ==
    IF n = "shutdown" THEN acme[g].pc \in {"subscribing", "polling"}
    ELSE acme[g].pc = "polling"

\* C2: a firing of a named trigger cancels the token of every task that cloned
\* it before the firing; a task that subscribes after the firing holds a live
\* token; the tasks created by the running state of generation g, which is
\* built after the firing of stop_services number g - 1, hold a token that none
\* of these firings cancelled.
C2_FiringReachesEarlierSubscribersOnly ==
    \A g \in Gens, n \in TriggerNames :
        AcmeSubscribed(g, n) =>
            /\ (AcmeToken(g, n) # PrivateToken /\ acme[g].sub_fired[n] < Fired(n))
                   => AcmeToken(g, n) \in cancelled[n]
            /\ acme[g].sub_fired[n] = Fired(n) => AcmeToken(g, n) \notin cancelled[n]
            /\ n = "stop_services" => \A k \in 1..(g - 1) : AcmeToken(g, n) # k

\* C2 witness: stop_services was fired; the old state's task holds the token it
\* cloned before, now cancelled, and the new state's task polls with a clone of
\* the fresh token, which is live.
C2_Witness ==
    /\ Fired("stop_services") = 1
    /\ AcmeSubscribed(1, "stop_services")
    /\ acme[1].sub_fired["stop_services"] = 0
    /\ acme[1].stop_services_token \in cancelled["stop_services"]
    /\ acme[2].pc = "polling"
    /\ acme[2].stop_services_token = trig["stop_services"].token
    /\ acme[2].stop_services_token \notin cancelled["stop_services"]

\* C3 (new connections go to the new state's accept loop): once the reload that
\* fired stop_services for generation g has published the new state, the accept
\* loop of generation g accepts no further connection.
C3_NewConnectionsAcceptedByNewState ==
    [][\A g \in Gens :
          (g \in cancelled["stop_services"] /\ reload.pc = "idle")
              => inflight'[g] <= inflight[g]]_vars

\* C3 (the old accept loops leave): an accept loop whose generation has had
\* stop_services fired eventually is no longer accepting.
C3_OldAcceptLoopsLeave ==
    \A g \in Gens :
        (g \in cancelled["stop_services"] /\ accept_loop[g] = "accepting")
            ~> (accept_loop[g] # "accepting")

\* C3 witness: the reload is over, the old state's accept loop still holds the
\* address with a connection it accepted, the new state's loop failed to bind.
C3_Witness ==
    /\ 1 \in cancelled["stop_services"]
    /\ reload.pc = "idle"
    /\ rs["http_servers"] = 2
    /\ accept_loop[1] = "accepting"
    /\ inflight[1] = 1
    /\ accept_loop[2] = "bind_failed"

\* One of the three cancellation sources of polling task g has fired since the
\* task was spawned: its manager was shut down, stop_services was fired (task
\* g is spawned after firing g - 1), or, for the task spawned at start,
\* shutdown was fired.
CancellationSourceFiredSinceSpawn(g) ==
    \/ acme[g].cancel_token_cancelled
    \/ Fired("stop_services") >= g
    \/ (g = 1 /\ Fired("shutdown") >= 1)

\* C31: the ACME polling task terminates whenever one of its three
\* cancellation sources (the manager-internal token, shutdown, stop_services)
\* fires after the task was spawned, whatever the state of the trigger
\* registry's locks when the task starts: a task that is in its select! loop
\* after such a firing holds a cancelled token, so that the loop breaks.
C31_PollingTaskEndsOnAnySource ==
    \A g \in Gens :
        (acme[g].pc = "polling" /\ CancellationSourceFiredSinceSpawn(g))
            => AcmePollingCancelled(g)

\* What holds: the task ends when its manager is shut down, and on a trigger
\* whose token it cloned (not met locked) before the firing.
C31_PollingTaskEndsOnClonedTokens ==
    \A g \in Gens :
        (/\ acme[g].pc = "polling"
         /\ \/ acme[g].cancel_token_cancelled
            \/ \E n \in TriggerNames :
                   AcmeToken(g, n) # PrivateToken /\ acme[g].sub_fired[n] < Fired(n))
            => AcmePollingCancelled(g)

\* C31 witness: the task spawned at start ran its subscription while shutdown
\* was being fired, holds a private token for it, and polls on after the
\* firing is over: none of its tokens is cancelled.
C31_Witness ==
    /\ acme[1].pc = "polling"
    /\ acme[1].shutdown_token = PrivateToken
    /\ shutdown_env = "fired"
    /\ Fired("shutdown") = 1
    /\ ~AcmePollingCancelled(1)

\* C31, second witness: shutdown was fired between the spawn and the task's
\* subscription; the task cloned the fresh token.
C31_WitnessLateSubscription ==
    /\ acme[1].pc = "polling"
    /\ acme[1].shutdown_token = trig["shutdown"].token
    /\ acme[1].sub_fired["shutdown"] = 1
    /\ Fired("shutdown") = 1
    /\ ~AcmePollingCancelled(1)

\* Something of the running state of generation g exists: a component built
\* for it, its accept loop, its ACME polling task.
NewStateBegun(g) ==
    \/ \E c \in Components : reload.new[c] = g
    \/ accept_loop[g] # "none"
    \/ acme[g].pc # "none"

\* The running state of generation g, or a part of it, is in the place readers
\* read, or a reader has obtained a component of it.
NewStateVisible(g) ==
    \/ \E c \in Components : rs[c] = g
    \/ \E r \in Readers, c \in Components : reader[r].seen[c] = g

\* stop_services has been fired for the running state of generation g: the
\* token its tasks cloned is cancelled and a later token took its place.
StopServicesFiredFor(g) ==
    /\ g \in cancelled["stop_services"]
    /\ trig["stop_services"].token > g

\* C30: set_new_running_state fires stop_services, waits, constructs the new
\* RunningState and publishes it under the write lock, in this order: nothing
\* of the new state (accept loop, polling task, supervisors, cache) exists
\* before stop_services has been fired for the old state, the wait lies
\* between the firing and the construction, and the new state is not visible
\* to readers before its construction has finished; it is moved in while the
\* write lock is held, where no reader reads.
C30_ReloadStopsThenConstructsThenPublishes ==
    /\ \A g \in Gens :
           g > 1 =>
               /\ NewStateBegun(g) => StopServicesFiredFor(g - 1)
               /\ NewStateVisible(g) => built >= g
    /\ reload.pc = "sleep" =>
           /\ StopServicesFiredFor(built)
           /\ ~trig["stop_services"].locked
           /\ ~NewStateBegun(built + 1)
    /\ reload.pc \in {"new", "assign"} => rs_lock.writer = "held"
    /\ reload.pc = "assign" => \A c \in Components : reload.new[c] = built
    /\ (\E c, d \in Components : rs[c] # rs[d]) =>
           (rs_lock.writer = "held" /\ rs_lock.readers = {})

\* C30 witness: the second state is being moved in under the write lock:
\* stop_services was fired for the first one, the new accept loop is spawned,
\* two of the four fields are assigned and no reader holds the lock.
C30_Witness ==
    /\ reload.pc = "assign"
    /\ reload.k = 3
    /\ StopServicesFiredFor(1)
    /\ built = 2
    /\ accept_loop[2] = "spawned"
    /\ rs["access_log_buffer"] = 2
    /\ rs["file_cache"] = 1
    /\ rs_lock.writer = "held"
    /\ \A r \in Readers : reader[r].pc = "idle"

\* set_new_running_state holds the write lock and is setting up http_servers.
ConstructingUnderWriteLock ==
    /\ rs_lock.writer = "held"
    /\ reload.pc = "new"
    /\ ComponentOrder[reload.k] = "http_servers"

MaxInputLen == 5

\* The characters of an input path: the separator, the dot, a letter and the
\* backslash (an ordinary character of a file name on Unix).
InputChars == {"/", ".", "a", "\\"}

\* The input of test_dot_and_dotdot_are_cleaned, foo/./bar/../baz.txt, with
\* one-letter names.
DotDotExample == <<"f", "/", ".", "/", "b", "/", ".", ".", "/", "z">>

\* GET /../etc/passwd, with one-letter names.
TraversalExample == <<"/", ".", ".", "/", "e", "/", "p">>

InputPaths ==
    UNION {[1..k -> InputChars] : k \in 0..MaxInputLen}
        \cup {DotDotExample, TraversalExample}

\* env::current_dir()
CurrentDir == <<"/", "c">>

ParentDir == <<".", ".">>

CurDir == <<".">>

\* The pieces of s between separators, empty pieces included.
RECURSIVE SplitOnSeparator(_, _)
SplitOnSeparator(s, cur) ==
    IF s = <<>> THEN <<cur>>
    ELSE IF Head(s) = "/" THEN <<cur>> \o SplitOnSeparator(Tail(s), <<>>)
    ELSE SplitOnSeparator(Tail(s), Append(cur, Head(s)))

\* Path::has_root / !Path::is_relative on Unix.
HasRoot(s) == s # <<>> /\ Head(s) = "/"

\* PathBuf::push: an absolute path replaces the buffer, a relative one is
\* appended after a separator.
PathBufPush(buf, s) ==
    IF HasRoot(s) \/ buf = <<>> THEN s
    ELSE IF buf[Len(buf)] = "/" THEN buf \o s
    ELSE buf \o <<"/">> \o s

\* Path::components on Unix, without the root: repeated separators and the
\* "." pieces of a rooted path vanish, ".." pieces stay as ParentDir.
NonRootComponents(s) ==
    SelectSeq(SplitOnSeparator(s, <<>>), LAMBDA c : c # <<>> /\ c # CurDir)

\* The string of a PathBuf made of the root and the given components.
RECURSIVE JoinRooted(_)
JoinRooted(comps) ==
    IF comps = <<>> THEN <<>>
    ELSE <<"/">> \o Head(comps) \o JoinRooted(Tail(comps))

\* while result.contains("//") { result = result.replace("//", "/") }
RECURSIVE RemoveDuplicateSlashes(_)
RemoveDuplicateSlashes(s) ==
    IF Len(s) < 2 THEN s
    ELSE IF s[1] = "/" /\ s[2] = "/" THEN RemoveDuplicateSlashes(Tail(s))
    ELSE <<Head(s)>> \o RemoveDuplicateSlashes(Tail(s))

\* get_full_file_path on Unix: CurDir and ParentDir components are skipped,
\* every other component is pushed.
GetFullFilePath(input) ==
    LET path == IF ~HasRoot(input) THEN PathBufPush(CurrentDir, input) ELSE input
        kept == SelectSeq(NonRootComponents(path), LAMBDA c : c # ParentDir)
        normalized == IF kept = <<>> THEN <<"/">> ELSE JoinRooted(kept)
    IN  RemoveDuplicateSlashes(ReplaceBackslash(normalized))

NormFrame == UNCHANGED <<pmVars, pathVars, rsVars, tlsVars, amVars, csVars, lbVars, erhVars, srvVars, pxVars, fuVars, amcVars, supVars, accVars, ptVars>>

CallGetFullFilePath ==
    /\ ~full_path_called
    /\ full_path' = GetFullFilePath(input_path)
    /\ full_path_called' = TRUE
    /\ UNCHANGED input_path
    /\ NormFrame

NormInit ==
    /\ input_path \in InputPaths
    /\ full_path = <<>>
    /\ full_path_called = FALSE

InitNorm ==
    /\ NormInit
    /\ PMIdle
    /\ PathIdle
    /\ RSIdle
    /\ TlsIdle
    /\ AmIdle
    /\ CsIdle
    /\ LbIdle
    /\ ErhIdle
    /\ SrvIdle
    /\ PxIdle
    /\ FuIdle
    /\ AmcIdle
    /\ SupIdle
    /\ AccIdle
    /\ PtIdle

NextNorm ==
    \/ CallGetFullFilePath

SpecNorm == InitNorm /\ [][NextNorm]_vars

\* ---- claims about path normalization

\* "." is dropped and each ".." removes the component before it (at the root
\* there is none to remove).
RECURSIVE ResolveDots(_, _)
ResolveDots(comps, done) ==
    IF comps = <<>> THEN done
    ELSE IF Head(comps) = CurDir THEN ResolveDots(Tail(comps), done)
    ELSE IF Head(comps) = ParentDir
         THEN ResolveDots(Tail(comps),
                          IF done = <<>> THEN done ELSE SubSeq(done, 1, Len(done) - 1))
    ELSE ResolveDots(Tail(comps), Append(done, Head(comps)))

\* The absolute path the input names once "." and ".." are resolved.
ResolvedPath(input) ==
    LET path == IF ~HasRoot(input) THEN PathBufPush(CurrentDir, input) ELSE input
        comps == ResolveDots(SelectSeq(SplitOnSeparator(path, <<>>),
                                       LAMBDA c : c # <<>>), <<>>)
    IN  IF comps = <<>> THEN <<"/">> ELSE JoinRooted(comps)

HasNoBackslash(s) == \A i \in 1..Len(s) : s[i] # "\\"

\* C11: get_full_file_path resolves "." and "..": "." is dropped and each ".."
\* removes the component before it, so foo/./bar/../baz.txt becomes
\* <cwd>/foo/baz.txt and /../etc/passwd becomes /etc/passwd.
C11_DotAndDotDotResolved ==
    (full_path_called /\ HasNoBackslash(input_path))
        => full_path = ResolvedPath(input_path)

\* C11, the part that holds: a ".." at the root has no component to remove, so
\* /../e/p is returned as /e/p.
C11_TraversalExampleNormalized ==
    (full_path_called /\ input_path = TraversalExample)
        => full_path = <<"/", "e", "/", "p">>

\* C11 witness: the function has run on the input of
\* test_dot_and_dotdot_are_cleaned.
C11_Witness ==
    /\ full_path_called
    /\ input_path = DotDotExample
    /\ full_path = <<"/", "c", "/", "f", "/", "b", "/", "z">>

(***************************************************************************)
(*             TLS: THE UNIFIED CERTIFICATE RESOLVER OF A BINDING          *)
(***************************************************************************)

SiteOrder == <<"s1", "s2">>

SiteIds == {SiteOrder[i] : i \in 1..Len(SiteOrder)}

LocalhostName == <<"l", "o", "c", "a", "l", "h", "o", "s", "t">>

WildcardName == <<"*">>

\* The hostnames a site of the binding may carry.
TlsHostnames == {<<"x", ".", "w">>, <<"X", ".", "w">>, LocalhostName, WildcardName}

\* Where a site's certificate comes from: generated self-signed (or PEM material
\* that matches the hostnames), PEM material for another name (the SNI resolver
\* refuses it), PEM material without a certificate, PEM files that fail to load.
TlsMaterials == {"generated", "pem_other_name", "pem_no_certs", "pem_unreadable"}

SiteConfigs ==
    [is_enabled : BOOLEAN, tls_automatic_enabled : BOOLEAN,
     hostnames : {<<h>> : h \in TlsHostnames}, material : TlsMaterials]

\* tls_settings.account_email: blank, or an address.
AccountEmails == {<<" ">>, <<"e">>}

\* What ClientHello::server_name gives: a name, or none.
NoServerName == <<"-">>

ServerNames == {NoServerName, <<"x", ".", "w">>, <<"X", ".", "w">>, <<"w", ".", "x">>,
                LocalhostName}

\* A ClientHello, with what the ACME resolver (rustls-acme) has for it.
ClientHellos ==
    [is_acme_challenge : BOOLEAN, server_name : ServerNames, acme_has : BOOLEAN]

ManualCert(s) == [kind |-> "manual", site |-> s]

LocalhostSelfSigned == [kind |-> "localhost_self_signed", site |-> ""]

AcmeCert == [kind |-> "acme", site |-> ""]

AcmeChallengeCert == [kind |-> "acme_challenge", site |-> ""]

\* str::trim on the spaces of a string.
RECURSIVE TrimSpaces(_)
TrimSpaces(s) ==
    IF s = <<>> THEN s
    ELSE IF Head(s) = " " THEN TrimSpaces(Tail(s))
    ELSE IF s[Len(s)] = " " THEN TrimSpaces(SubSeq(s, 1, Len(s) - 1))
    ELSE s

HasChar(s, c) == \E i \in 1..Len(s) : s[i] = c

\* The elements of a sequence.
SeqRange(q) == {q[i] : i \in 1..Len(q)}

\* let h = hostname.trim().to_lowercase()
AcmeHostname(hostname) == ToLowercase(TrimSpaces(hostname))

\* The hostname is not skipped by the domain scan.
IsEligibleHostname(hostname) ==
    LET h == AcmeHostname(hostname)
    IN  ~(h = <<>> \/ h = WildcardName \/ HasChar(h, "*") \/ h = LocalhostName
          \/ ~HasChar(h, "."))

\* get_acme_domains_for_binding, for a TLS binding with the given sites.
GetAcmeDomainsForBinding(ss) ==
    LET scanned == UNION {SeqRange(ss[s].hostnames) :
                             s \in {x \in SiteIds : ss[x].is_enabled
                                                    /\ ss[x].tls_automatic_enabled}}
    IN  {AcmeHostname(h) : h \in {g \in scanned : IsEligibleHostname(g)}}

\* build_acme_state_for_binding returns Some: the email is not blank and the
\* binding has an ACME domain.
BuildAcmeStateForBinding(email, ss) ==
    /\ TrimSpaces(email) # <<>>
    /\ GetAcmeDomainsForBinding(ss) # {}

\* The SANs of a site: its hostnames, or localhost for a wildcard or nameless site.
SiteSans(site) ==
    LET sans == SelectSeq(site.hostnames, LAMBDA h : TrimSpaces(h) # <<>> /\ h # WildcardName)
        has_wildcard == WildcardName \in SeqRange(site.hostnames)
    IN  IF sans = <<>> \/ has_wildcard THEN <<LocalhostName>> ELSE sans

\* ResolvesServerCertUsingSni::add for every name: the names are stored lower-cased.
AddManualCerts(sni, names, cert) ==
    [n \in DOMAIN sni \cup {ToLowercase(h) : h \in SeqRange(names)} |->
        IF n \in {ToLowercase(h) : h \in SeqRange(names)} THEN cert ELSE sni[n]]

EmptySni == [n \in {} |-> NoCert]

\* The loop of build_unified_cert_resolver over the enabled sites, from site i on.
RECURSIVE BuildSites(_, _, _)
BuildSites(ss, i, st) ==
    IF i > Len(SiteOrder) \/ st.error THEN st
    ELSE LET s == SiteOrder[i]
             site == ss[s]
         IN  IF ~site.is_enabled \/ site.tls_automatic_enabled
                \/ site.material = "pem_no_certs"
             THEN BuildSites(ss, i + 1, st)
             ELSE IF site.material = "pem_unreadable"
             THEN [st EXCEPT !.error = TRUE]
             ELSE BuildSites(ss, i + 1,
                     [st EXCEPT
                        !.fallback_certificate =
                            IF @ = NoCert THEN ManualCert(s) ELSE @,
                        !.sni = IF site.material = "pem_other_name" THEN @
                                ELSE AddManualCerts(@, SiteSans(site), ManualCert(s)),
                        !.cert_added = @ \/ site.material # "pem_other_name"])

\* if !cert_added && acme_domains.is_empty()
NeedsSynthesizedFallback(cert_added, acme_domains) ==
    ~cert_added /\ acme_domains = {}

\* build_unified_tls_acceptor: build_acme_state_for_binding, then
\* build_unified_cert_resolver with its resolver.
BuildUnifiedCertResolver(email, ss) ==
    LET acme_domains == GetAcmeDomainsForBinding(ss)
        st == BuildSites(ss, 1, [sni |-> EmptySni, fallback_certificate |-> NoCert,
                                 cert_added |-> FALSE, error |-> FALSE])
        synth == NeedsSynthesizedFallback(st.cert_added, acme_domains)
    IN  IF st.error THEN [state |-> "error"]
        ELSE [state |-> "built",
              acme_resolver |-> BuildAcmeStateForBinding(email, ss),
              acme_domains |-> acme_domains,
              sni_resolver |-> IF synth
                               THEN AddManualCerts(st.sni, <<LocalhostName>>, LocalhostSelfSigned)
                               ELSE st.sni,
              fallback_cert |-> IF synth /\ st.fallback_certificate = NoCert
                                THEN LocalhostSelfSigned
                                ELSE st.fallback_certificate]
\* ResolvesServerCertUsingSni::resolve: the certificate stored under the
\* (lower-cased) server name, if any.
SniResolve(sni, hello) ==
    IF hello.server_name # NoServerName /\ ToLowercase(hello.server_name) \in DOMAIN sni
    THEN sni[ToLowercase(hello.server_name)]
    ELSE NoCert

\* ResolvesServerCertAcme::resolve (rustls-acme): the challenge certificate for
\* a challenge, the issued certificate otherwise, when it has one.
AcmeResolve(hello) ==
    IF ~hello.acme_has THEN NoCert
    ELSE IF hello.is_acme_challenge THEN AcmeChallengeCert ELSE AcmeCert

\* A mutant of resolve: the manual SNI map is consulted before the ACME set.
UnifiedResolveManualFirst(r, hello) ==
    IF hello.is_acme_challenge
    THEN (IF r.acme_resolver THEN AcmeResolve(hello) ELSE NoCert)
    ELSE IF SniResolve(r.sni_resolver, hello) # NoCert THEN SniResolve(r.sni_resolver, hello)
    ELSE IF r.acme_resolver /\ AcmeResolve(hello) # NoCert THEN AcmeResolve(hello)
    ELSE r.fallback_cert

\* A mutant of resolve: a challenge that the ACME resolver cannot answer falls
\* through to the regular lookup.
UnifiedResolveChallengeFallsThrough(r, hello) ==
    IF hello.is_acme_challenge /\ r.acme_resolver /\ AcmeResolve(hello) # NoCert
    THEN AcmeResolve(hello)
    ELSE IF SniResolve(r.sni_resolver, hello) # NoCert THEN SniResolve(r.sni_resolver, hello)
    ELSE r.fallback_cert

\* UnifiedCertResolver::resolve
UnifiedResolve(r, hello) ==
    IF hello.is_acme_challenge
    THEN (IF r.acme_resolver THEN AcmeResolve(hello) ELSE NoCert)
    ELSE LET sni_name == IF hello.server_name = NoServerName THEN NoServerName
                         ELSE ToLowercase(hello.server_name)
         IN  IF sni_name # NoServerName /\ ToLowercase(sni_name) \in r.acme_domains
             THEN (IF r.acme_resolver /\ AcmeResolve(hello) # NoCert
                   THEN AcmeResolve(hello)
                   ELSE r.fallback_cert)
             ELSE IF SniResolve(r.sni_resolver, hello) # NoCert
             THEN SniResolve(r.sni_resolver, hello)
             ELSE r.fallback_cert

TlsFrame == UNCHANGED <<pmVars, pathVars, rsVars, normVars, amVars, csVars, lbVars, erhVars, srvVars, pxVars, fuVars, amcVars, supVars, accVars, ptVars>>

\* The binding's accept loop builds its acceptor (build_unified_tls_acceptor).
CallBuildUnifiedCertResolver ==
    /\ resolver.state = "idle"
    /\ resolver' = BuildUnifiedCertResolver(account_email, sites)
    /\ UNCHANGED <<account_email, sites, client_hello, resolved>>
    /\ TlsFrame

\* A TLS handshake on the binding: rustls hands the ClientHello to resolve.
CallResolve(hello) ==
    /\ resolver.state = "built"
    /\ client_hello' = hello
    /\ resolved' = UnifiedResolve(resolver, hello)
    /\ UNCHANGED <<account_email, sites, resolver>>
    /\ TlsFrame

TlsInit ==
    /\ account_email \in AccountEmails
    /\ sites \in [SiteIds -> SiteConfigs]
    /\ resolver = [state |-> "idle"]
    /\ client_hello = NoHello
    /\ resolved = NoCert

InitTls ==
    /\ TlsInit
    /\ PMIdle
    /\ PathIdle
    /\ RSIdle
    /\ NormIdle
    /\ AmIdle
    /\ CsIdle
    /\ LbIdle
    /\ ErhIdle
    /\ SrvIdle
    /\ PxIdle
    /\ FuIdle
    /\ AmcIdle
    /\ SupIdle
    /\ AccIdle
    /\ PtIdle

NextTls ==
    \/ CallBuildUnifiedCertResolver
    \/ \E hello \in ClientHellos : CallResolve(hello)

SpecTls == InitTls /\ [][NextTls]_vars
\* ---- claims about the unified certificate resolver

\* C12: a ClientHello that advertises acme-tls/1 is answered by the ACME
\* resolver when one is configured and gets no certificate when none is; never a
\* certificate of the manual SNI map or the fallback.
C12_ChallengeGoesToAcmeResolver ==
    (resolver.state = "built" /\ client_hello # NoHello /\ client_hello.is_acme_challenge)
        => /\ resolver.acme_resolver => resolved = AcmeResolve(client_hello)
           /\ ~resolver.acme_resolver => resolved = NoCert
           /\ resolved.kind \in {"acme_challenge", "none"}

\* C12 witness: a challenge for a name that has a manual certificate, on a
\* binding without ACME resolver and with a fallback, gets no certificate.
C12_Witness ==
    /\ resolver.state = "built"
    /\ client_hello # NoHello
    /\ client_hello.is_acme_challenge
    /\ ~resolver.acme_resolver
    /\ resolver.fallback_cert # NoCert
    /\ SniResolve(resolver.sni_resolver, client_hello) # NoCert
    /\ resolved = NoCert

\* C12 witness: a challenge delegated to the ACME resolver of a binding that
\* also has manual certificates.
C12_WitnessDelegated ==
    /\ resolver.state = "built"
    /\ client_hello.is_acme_challenge
    /\ resolver.acme_resolver
    /\ resolver.fallback_cert # NoCert
    /\ resolved = AcmeChallengeCert

\* The SNI of the hello, lower-cased, is in the binding's ACME domain set.
SniIsAcmeDomain ==
    /\ client_hello.server_name # NoServerName
    /\ ToLowercase(client_hello.server_name) \in resolver.acme_domains

C13_WitnessFallback ==
    /\ resolver.state = "built"
    /\ client_hello # NoHello
    /\ ~client_hello.is_acme_challenge
    /\ resolver.acme_resolver
    /\ client_hello.acme_has
    /\ ~SniIsAcmeDomain
    /\ SniResolve(resolver.sni_resolver, client_hello) = NoCert
    /\ resolved = resolver.fallback_cert
    /\ resolved # NoCert
\* No site of the binding yields a manual certificate: every site is disabled,
\* left to ACME, or has material without a certificate.
NoManualCertificate(ss) ==
    \A s \in SiteIds :
        ~ss[s].is_enabled \/ ss[s].tls_automatic_enabled \/ ss[s].material = "pem_no_certs"

\* C14: when ACME is disabled and no site of the binding yields a manual
\* certificate, the resolver built for the binding has the synthesized
\* localhost self-signed certificate as fallback, so every ClientHello that is
\* no challenge resolves to a certificate.
C14_FallbackSynthesizedWithoutAcme ==
    (resolver.state = "built" /\ ~resolver.acme_resolver /\ NoManualCertificate(sites))
        => /\ resolver.fallback_cert = LocalhostSelfSigned
           /\ (client_hello # NoHello /\ ~client_hello.is_acme_challenge)
                  => resolved # NoCert

\* C14, the part that holds: without ACME domains on the binding the fallback
\* is synthesized.
C14_FallbackSynthesizedWithoutAcmeDomains ==
    (resolver.state = "built" /\ resolver.acme_domains = {} /\ NoManualCertificate(sites))
        => resolver.fallback_cert = LocalhostSelfSigned

\* C14 witness: the account email is blank, the only enabled site is left to
\* ACME with an eligible hostname, and a plain handshake gets no certificate.
C14_Witness ==
    /\ resolver.state = "built"
    /\ TrimSpaces(account_email) = <<>>
    /\ ~resolver.acme_resolver
    /\ NoManualCertificate(sites)
    /\ resolver.acme_domains # {}
    /\ resolver.fallback_cert = NoCert
    /\ client_hello # NoHello
    /\ ~client_hello.is_acme_challenge
    /\ resolved = NoCert

\* C15: when the ACME resolver has no certificate for an ACME-managed hostname,
\* a handshake for it that is no challenge is served the fallback certificate,
\* on every binding built, also one whose enabled sites are all left to ACME.
C15_AcmeHostnameServedFallback ==
    (resolver.state = "built" /\ client_hello # NoHello /\ ~client_hello.is_acme_challenge
        /\ SniIsAcmeDomain /\ ~(resolver.acme_resolver /\ client_hello.acme_has))
        => /\ resolved = resolver.fallback_cert
           /\ resolved # NoCert

\* C15, the part that holds: on a binding with a site that yields a manual
\* certificate the ACME-managed hostname is served the fallback.
C15_AcmeHostnameServedFallbackWithManualSite ==
    (resolver.state = "built" /\ client_hello # NoHello /\ ~client_hello.is_acme_challenge
        /\ SniIsAcmeDomain /\ ~(resolver.acme_resolver /\ client_hello.acme_has)
        /\ ~NoManualCertificate(sites))
        => /\ resolved = resolver.fallback_cert
           /\ resolved # NoCert

\* C15 witness: ACME is active, every enabled site is left to ACME, the
\* certificate is not issued yet, and the handshake gets no certificate.
C15_Witness ==
    /\ resolver.state = "built"
    /\ resolver.acme_resolver
    /\ \A s \in SiteIds : sites[s].is_enabled => sites[s].tls_automatic_enabled
    /\ \E s \in SiteIds : sites[s].is_enabled
    /\ client_hello # NoHello
    /\ ~client_hello.is_acme_challenge
    /\ SniIsAcmeDomain
    /\ ~client_hello.acme_has
    /\ resolved = NoCert

(***************************************************************************)
(*                         THE SHARED ACME MANAGER                         *)
(***************************************************************************)

BindingIds == {"b1", "b2"}

\* The binding each site is served on (binding_site_cache.get_sites_for_binding).
SiteBinding == [s \in SiteIds |-> IF s = "s1" THEN "b1" ELSE "b2"]

\* The hostnames a site may carry: empty, blank, the wildcard, a wildcard name,
\* localhost, a public name, the same in upper case and with spaces around it,
\* a name without a dot.
AcmeHostnameChoices ==
    {<<>>, <<" ">>, WildcardName, <<"*", ".", "w">>, LocalhostName, <<"x", ".", "w">>,
     <<"X", ".", "w">>, <<" ", "x", ".", "w", " ">>, <<"x", "w">>}

AcmeSiteConfigs ==
    [is_enabled : BOOLEAN, tls_automatic_enabled : BOOLEAN,
     hostnames : {<<h>> : h \in AcmeHostnameChoices}]

AcmeConfigs ==
    [account_email : AccountEmails, is_tls : [BindingIds -> BOOLEAN],
     sites : [SiteIds -> AcmeSiteConfigs], cache_dir_ok : BOOLEAN]

\* A mutant of the hostname scan: localhost is not skipped.
HostnameKeptWithLocalhost(hostname) ==
    LET h == ToLowercase(TrimSpaces(hostname))
    IN  IF h = <<>> \/ h = WildcardName THEN FALSE
        ELSE IF HasChar(h, "*") THEN FALSE
        ELSE IF ~HasChar(h, ".") /\ h # LocalhostName THEN FALSE
        ELSE TRUE

\* The hostname scan of create_shared_acme_manager: the hostname survives the
\* four `continue`s.
HostnameKept(hostname) ==
    LET h == ToLowercase(TrimSpaces(hostname))
    IN  IF h = <<>> \/ h = WildcardName THEN FALSE
        ELSE IF HasChar(h, "*") THEN FALSE
        ELSE IF h = LocalhostName THEN FALSE
        ELSE IF ~HasChar(h, ".") THEN FALSE
        ELSE TRUE

\* all_domains after the loops over the TLS bindings and their sites.
AllDomains(cfg) ==
    LET scanned == {s \in SiteIds : /\ cfg.is_tls[SiteBinding[s]]
                                   /\ cfg.sites[s].is_enabled
                                   /\ cfg.sites[s].tls_automatic_enabled}
        kept == {h \in UNION {SeqRange(cfg.sites[s].hostnames) : s \in scanned} :
                    HostnameKept(h)}
    IN  {ToLowercase(TrimSpaces(h)) : h \in kept}

\* create_shared_acme_manager: Ok(None), Ok(Some(manager)) or Err.
CreateSharedAcmeManager(cfg) ==
    IF TrimSpaces(cfg.account_email) = <<>>
    THEN [manager |-> "none", domains |-> {}, result |-> "ok"]
    ELSE IF AllDomains(cfg) = {}
    THEN [manager |-> "none", domains |-> {}, result |-> "ok"]
    ELSE IF ~cfg.cache_dir_ok
    THEN [manager |-> "none", domains |-> {}, result |-> "err"]
    ELSE [manager |-> "some", domains |-> AllDomains(cfg), result |-> "ok"]

AmFrame == UNCHANGED <<pmVars, pathVars, rsVars, normVars, tlsVars, csVars, lbVars, erhVars, srvVars, pxVars, fuVars, amcVars, supVars, accVars, ptVars>>

\* initialize_shared_acme_manager: the existing manager is shut down, a new one
\* is created from the configuration and stored.
InitializeSharedAcmeManager ==
    /\ acme_manager' = CreateSharedAcmeManager(acme_config)
    /\ UNCHANGED <<acme_config, acme_reload>>
    /\ AmFrame

AmInit ==
    /\ acme_config \in AcmeConfigs
    /\ acme_manager = [manager |-> "none", domains |-> {}, result |-> "not_called"]
    /\ acme_reload = [pc |-> "idle", previous |-> "none", previous_domains |-> {},
                      polling_cancelled |-> FALSE]

InitAm ==
    /\ AmInit
    /\ PMIdle
    /\ PathIdle
    /\ RSIdle
    /\ NormIdle
    /\ TlsIdle
    /\ CsIdle
    /\ LbIdle
    /\ ErhIdle
    /\ SrvIdle
    /\ PxIdle
    /\ FuIdle
    /\ AmcIdle
    /\ SupIdle
    /\ AccIdle
    /\ PtIdle

NextAm ==
    \/ InitializeSharedAcmeManager

SpecAm == InitAm /\ [][NextAm]_vars
\* ---- claims about the shared ACME manager

\* A hostname is eligible iff, trimmed and lower-cased, it is not empty, has no
\* "*", has a "." and is not localhost.
EligibleHostname(hostname) ==
    LET h == ToLowercase(TrimSpaces(hostname))
    IN  /\ h # <<>>
        /\ ~HasChar(h, "*")
        /\ HasChar(h, ".")
        /\ h # LocalhostName

\* The eligible hostnames of the enabled sites with tls_automatic_enabled on
\* the TLS bindings.
EligibleHostnames(cfg) ==
    {ToLowercase(TrimSpaces(h)) :
        h \in {g \in AcmeHostnameChoices :
                 /\ EligibleHostname(g)
                 /\ \E s \in SiteIds : /\ cfg.is_tls[SiteBinding[s]]
                                       /\ cfg.sites[s].is_enabled
                                       /\ cfg.sites[s].tls_automatic_enabled
                                       /\ g \in SeqRange(cfg.sites[s].hostnames)}}

C16_WitnessAbsent ==
    /\ acme_manager.result = "ok"
    /\ acme_manager.manager = "none"
    /\ TrimSpaces(acme_config.account_email) # <<>>
    /\ \A b \in BindingIds : acme_config.is_tls[b]
    /\ \A s \in SiteIds : /\ acme_config.sites[s].is_enabled
                          /\ acme_config.sites[s].tls_automatic_enabled
                          /\ acme_config.sites[s].hostnames = <<LocalhostName>>

(***************************************************************************)
(*                     THE ACME HTTP-01 CHALLENGE STORE                    *)
(***************************************************************************)

CHALLENGE_EXPIRY_SECONDS == 3600

\* "/.well-known/acme-challenge/"
ACME_CHALLENGE_PATH_PREFIX ==
    <<"/", ".", "w", "e", "l", "l", "-", "k", "n", "o", "w", "n", "/",
      "a", "c", "m", "e", "-", "c", "h", "a", "l", "l", "e", "n", "g", "e", "/">>

\* The tokens handed to add_challenge and remove_challenge: two well-formed
\* ones, the empty string and one with a path separator.
TokenOrder == <<(<<"t">>), (<<"u">>), (<<>>), (<<"t", "/", "u">>)>>

Tokens == {TokenOrder[i] : i \in 1..Len(TokenOrder)}

KeyAuthorizations == {"k1", "k2"}

\* At most this many tokens are under challenge at once.
MaxChallenges == 2

\* The request paths handed to try_handle_challenge: the prefix followed by a
\* token or by an unknown name, and paths that lack the prefix.
ChallengePaths ==
    {ACME_CHALLENGE_PATH_PREFIX \o tok : tok \in Tokens \cup {<<"x">>}}
        \cup {<<"/", "t">>, Tail(ACME_CHALLENGE_PATH_PREFIX) \o <<"t">>,
              SubSeq(ACME_CHALLENGE_PATH_PREFIX, 1, 27) \o <<"t">>}

\* How much time passes at once, in seconds.
ElapseChoices == {1800, 3601}

\* created_at.elapsed() after d more seconds; beyond the expiry every age is alike.
Elapse(entry, d) ==
    IF entry = NoEntry THEN entry
    ELSE [entry EXCEPT !.age = IF @ + d > CHALLENGE_EXPIRY_SECONDS
                                THEN CHALLENGE_EXPIRY_SECONDS + 1 ELSE @ + d]

\* A mutant of is_expired: an entry expires on reaching the expiry.
IsExpiredAtExpiry(entry) == entry.age >= CHALLENGE_EXPIRY_SECONDS

\* ChallengeEntry::is_expired
IsExpired(entry) == entry.age > CHALLENGE_EXPIRY_SECONDS

\* AcmeHttp01ChallengeStore::get_key_authorization
GetKeyAuthorization(map, token) ==
    IF token \notin DOMAIN map \/ map[token] = NoEntry THEN "none"
    ELSE IF IsExpired(map[token]) THEN "none"
    ELSE map[token].key_authorization

NoToken == <<"?">>

\* extract_token_from_path: path.strip_prefix(ACME_CHALLENGE_PATH_PREFIX)
ExtractTokenFromPath(path) ==
    IF StartsWith(path, ACME_CHALLENGE_PATH_PREFIX)
    THEN SubSeq(path, Len(ACME_CHALLENGE_PATH_PREFIX) + 1, Len(path))
    ELSE NoToken

\* A mutant of try_handle_challenge: the token is looked up as it is.
TryHandleChallengeUnchecked(map, path) ==
    IF ExtractTokenFromPath(path) = NoToken THEN "none"
    ELSE GetKeyAuthorization(map, ExtractTokenFromPath(path))

\* AcmeHttp01ChallengeStore::try_handle_challenge
TryHandleChallenge(map, path) ==
    LET token == ExtractTokenFromPath(path)
    IN  IF token = NoToken THEN "none"
        ELSE IF token = <<>> \/ HasChar(token, "/") THEN "none"
        ELSE GetKeyAuthorization(map, token)

\* ChallengeEntry::new, stored by DashMap::insert
DashMapInsert(map, token, key_authorization) ==
    [map EXCEPT ![token] = [key_authorization |-> key_authorization, age |-> 0]]

\* A mutant of DashMap::remove: the entry stays.
DashMapRemoveKeeps(map, token) == map

\* DashMap::remove
DashMapRemove(map, token) == [map EXCEPT ![token] = NoEntry]

CsFrame == UNCHANGED <<pmVars, pathVars, rsVars, normVars, tlsVars, amVars, lbVars, erhVars, srvVars, pxVars, fuVars, amcVars, supVars, accVars, ptVars>>

\* add_challenge(token, key_authorization)
AddChallenge(token, key_authorization) ==
    /\ Cardinality({tok \in Tokens : added[tok] # NoEntry} \cup {token}) <= MaxChallenges
    /\ challenges' = DashMapInsert(challenges, token, key_authorization)
    /\ added' = [added EXCEPT ![token] =
                    [key_authorization |-> key_authorization, age |-> 0]]
    /\ lookup' = NoLookup
    /\ UNCHANGED cleanup_pc
    /\ CsFrame

\* remove_challenge(token)
RemoveChallenge(token) ==
    /\ challenges' = DashMapRemove(challenges, token)
    /\ added' = [added EXCEPT ![token] = NoEntry]
    /\ lookup' = NoLookup
    /\ UNCHANGED cleanup_pc
    /\ CsFrame

\* try_handle_challenge(path), on the request path of the HTTP-01 interceptor
CallTryHandleChallenge(path) ==
    /\ lookup' = [path |-> path, result |-> TryHandleChallenge(challenges, path)]
    /\ UNCHANGED <<challenges, added, cleanup_pc>>
    /\ CsFrame

\* cleanup_expired: retain visits the entries one after the other, each under
\* the lock of its shard; after the last one the call returns.
CleanupExpiredStep ==
    /\ IF cleanup_pc = Len(TokenOrder)
       THEN /\ cleanup_pc' = 0
            /\ UNCHANGED challenges
       ELSE /\ cleanup_pc' = cleanup_pc + 1
            /\ challenges' = [challenges EXCEPT ![TokenOrder[cleanup_pc + 1]] =
                                 IF @ # NoEntry /\ IsExpired(@) THEN NoEntry ELSE @]
    /\ lookup' = NoLookup
    /\ UNCHANGED added
    /\ CsFrame

\* Time passes: every entry's created_at lies d seconds further back.
TimePasses(d) ==
    /\ challenges' = [tok \in Tokens |-> Elapse(challenges[tok], d)]
    /\ added' = [tok \in Tokens |-> Elapse(added[tok], d)]
    /\ \E tok \in Tokens : challenges'[tok] # challenges[tok] \/ added'[tok] # added[tok]
    /\ lookup' = NoLookup
    /\ UNCHANGED cleanup_pc
    /\ CsFrame

CsInit ==
    /\ challenges = [tok \in Tokens |-> NoEntry]
    /\ added = [tok \in Tokens |-> NoEntry]
    /\ lookup = NoLookup
    /\ cleanup_pc = 0

InitCs ==
    /\ CsInit
    /\ PMIdle
    /\ PathIdle
    /\ RSIdle
    /\ NormIdle
    /\ TlsIdle
    /\ AmIdle
    /\ LbIdle
    /\ ErhIdle
    /\ SrvIdle
    /\ PxIdle
    /\ FuIdle
    /\ AmcIdle
    /\ SupIdle
    /\ AccIdle
    /\ PtIdle

NextCs ==
    \/ \E tok \in Tokens, k \in KeyAuthorizations : AddChallenge(tok, k)
    \/ \E tok \in Tokens : RemoveChallenge(tok)
    \/ \E path \in ChallengePaths : CallTryHandleChallenge(path)
    \/ CleanupExpiredStep
    \/ \E d \in ElapseChoices : TimePasses(d)

SpecCs == InitCs /\ [][NextCs]_vars

\* ---- claims about the challenge store

\* A token that try_handle_challenge looks up: not empty and without "/".
WellFormedToken(tok) == tok # <<>> /\ ~HasChar(tok, "/")

\* The lookup that has just returned was for ACME_CHALLENGE_PATH_PREFIX + tok.
LookedUp(tok) ==
    /\ lookup.result # "not_called"
    /\ lookup.path = ACME_CHALLENGE_PATH_PREFIX \o tok

\* C17, as stated: after add_challenge(t, k), the lookup of the challenge path
\* of t returns Some(k) as long as fewer than 3600 s have elapsed and t has
\* not been removed or re-added; after remove_challenge(t) it returns None;
\* whatever was done to other tokens meanwhile.
C17_LookupReturnsLastAdded ==
    \A tok \in Tokens :
        LookedUp(tok) =>
            /\ (added[tok] # NoEntry /\ added[tok].age < 3600)
                   => lookup.result = added[tok].key_authorization
            /\ added[tok] = NoEntry => lookup.result = "none"

\* C17, for tokens that are not empty and hold no "/": after
\* add_challenge(t, k), the lookup of the challenge path of t returns Some(k)
\* as long as fewer than 3600 s have elapsed and t has not been removed or
\* re-added; after remove_challenge(t) it returns None; whatever was done to
\* other tokens meanwhile.
C17_LookupReturnsLastAddedWellFormed ==
    \A tok \in Tokens :
        (LookedUp(tok) /\ WellFormedToken(tok)) =>
            /\ (added[tok] # NoEntry /\ added[tok].age < 3600)
                   => lookup.result = added[tok].key_authorization
            /\ added[tok] = NoEntry => lookup.result = "none"

\* The token "t" was added half an hour ago, another token is in the store
\* too, and the lookup of "t" has returned its key authorization.
C17_Witness ==
    /\ LookedUp(<<"t">>)
    /\ added[<<"t">>] = [key_authorization |-> "k2", age |-> 1800]
    /\ challenges[<<"u">>] # NoEntry
    /\ lookup.result = "k2"

\* The token with a "/" was added a moment ago and the lookup of its
\* challenge path has returned None.
C17_WitnessMalformed ==
    /\ LookedUp(<<"t", "/", "u">>)
    /\ added[<<"t", "/", "u">>] # NoEntry
    /\ added[<<"t", "/", "u">>].age = 0
    /\ lookup.result = "none"

\* The remainder of the looked-up path after the challenge prefix.
Remainder == SubSeq(lookup.path, Len(ACME_CHALLENGE_PATH_PREFIX) + 1, Len(lookup.path))

\* C18: try_handle_challenge returns None for every path that does not start
\* with the challenge prefix, and for every path whose remainder after the
\* prefix is empty or contains "/", whatever the store holds.
C18_MalformedPathsGiveNone ==
    (/\ lookup.result # "not_called"
     /\ \/ ~StartsWith(lookup.path, ACME_CHALLENGE_PATH_PREFIX)
        \/ Remainder = <<>>
        \/ HasChar(Remainder, "/"))
        => lookup.result = "none"

\* A token with a "/" is in the store, unexpired, and the lookup of the path
\* made of the prefix and that token has returned None.
C18_Witness ==
    /\ LookedUp(<<"t", "/", "u">>)
    /\ challenges[<<"t", "/", "u">>] # NoEntry
    /\ ~IsExpired(challenges[<<"t", "/", "u">>])
    /\ lookup.result = "none"

\* The empty token is in the store and the lookup of the bare prefix has
\* returned None.
C18_WitnessEmpty ==
    /\ LookedUp(<<>>)
    /\ challenges[<<>>] # NoEntry
    /\ ~IsExpired(challenges[<<>>])
    /\ lookup.result = "none"

\* The entry is in the map and older than the 3600 s TTL.
OlderThanTtl(entry) == entry # NoEntry /\ entry.age > 3600

\* C19: an entry older than the 3600 s TTL is never returned by a lookup,
\* even while it is still in the map; and a step of cleanup_expired removes
\* the entry it visits exactly if that entry is older than the TTL, and
\* touches no other entry.
C19_ExpiredNeverReturnedAndExactlySwept ==
    /\ [](\A tok \in Tokens :
            (LookedUp(tok) /\ OlderThanTtl(challenges[tok])) => lookup.result = "none")
    /\ [][cleanup_pc' # cleanup_pc =>
            \A tok \in Tokens :
                /\ challenges'[tok] # challenges[tok]
                       => (OlderThanTtl(challenges[tok]) /\ challenges'[tok] = NoEntry)
                /\ (/\ cleanup_pc < Len(TokenOrder)
                    /\ tok = TokenOrder[cleanup_pc + 1]
                    /\ OlderThanTtl(challenges[tok]))
                       => challenges'[tok] = NoEntry]_vars

\* An entry older than the TTL is still in the map and its lookup has
\* returned None.
C19_Witness ==
    /\ LookedUp(<<"t">>)
    /\ OlderThanTtl(challenges[<<"t">>])
    /\ lookup.result = "none"

\* cleanup_expired has gone through the whole map: the entry that was older
\* than the TTL is gone and the entry exactly at the TTL is still there.
C19_WitnessSwept ==
    /\ cleanup_pc = Len(TokenOrder)
    /\ OlderThanTtl(added[<<"t">>])
    /\ challenges[<<"t">>] = NoEntry
    /\ challenges[<<"u">>] # NoEntry
    /\ challenges[<<"u">>].age = 3600

(***************************************************************************)
(*              THE PROXY PROCESSOR AND ITS ROUND-ROBIN BALANCER           *)
(***************************************************************************)

\* How many requests a proxy processor handles.
MaxRequests == 5

ProcessorIds == {"p1", "p2"}

\* The upstream lists a processor may be configured with.
UpstreamLists ==
    {<<>>, <<"u1">>, <<"u1", "u2">>, <<"u2", "u1">>, <<"u1", "u2", "u3">>}

Strategies == {"round_robin", "least_conn"}

ProxyProcessorConfigs ==
    [upstream_servers : UpstreamLists, load_balancing_strategy : Strategies]

\* No balancer is registered under the id.
NoBalancer == [servers |-> <<>>, cursor |-> -1]

\* RoundRobin::new
RoundRobinNew(servers) == [servers |-> servers, cursor |-> 0]

\* A mutant of the cursor's advance: one step too far.
AdvanceCursorByTwo(rr) ==
    IF rr.servers = <<>> THEN rr
    ELSE [rr EXCEPT !.cursor = (@ + 2) % Len(rr.servers)]

\* The cursor after get_next_server: advanced modulo the list length.
AdvanceCursor(rr) ==
    IF rr.servers = <<>> THEN rr
    ELSE [rr EXCEPT !.cursor = (@ + 1) % Len(rr.servers)]

\* What get_next_server returns: None for an empty list, else the server
\* under the cursor.
GetNextServer(rr) ==
    IF rr.servers = <<>> THEN "none" ELSE rr.servers[rr.cursor + 1]

\* check_load_balancer_exists
CheckLoadBalancerExists(registry, id) == registry[id] # NoBalancer

\* The registry after the first part of handle_request: the balancer of the
\* processor is created when it is missing and the strategy is known.
\* A mutant of create_load_balancer: a balancer already registered under the
\* id is replaced.
CreateLoadBalancerReplacing(registry, id, lb_instance) ==
    [registry EXCEPT ![id] = lb_instance]

\* create_load_balancer: the instance is registered unless the id has one.
CreateLoadBalancer(registry, id, lb_instance) ==
    IF registry[id] # NoBalancer THEN registry
    ELSE [registry EXCEPT ![id] = lb_instance]

\* The registry after the first part of handle_request: the balancer of the
\* processor is created when it is missing and the strategy is known.
EnsureLoadBalancer(registry, id, processor) ==
    IF CheckLoadBalancerExists(registry, id) THEN registry
    ELSE IF processor.load_balancing_strategy = "round_robin"
         THEN CreateLoadBalancer(registry, id, RoundRobinNew(processor.upstream_servers))
         ELSE registry

LbFrame == UNCHANGED <<pmVars, pathVars, rsVars, normVars, tlsVars, amVars, csVars, erhVars, srvVars, pxVars, fuVars, amcVars, supVars, accVars, ptVars>>

\* handle_request answers 500 Internal Server Error: the balancer is missing
\* and the strategy is not round_robin.
HandleRequestUnknownStrategy(id) ==
    /\ Len(handled[id]) < MaxRequests
    /\ ~CheckLoadBalancerExists(load_balancers, id)
    /\ proxy_processors[id].load_balancing_strategy # "round_robin"
    /\ handled' = [handled EXCEPT ![id] =
                      Append(@, [cursor |-> -1, server |-> "none", response |-> "500"])]
    /\ UNCHANGED <<proxy_processors, load_balancers, proxy_requests>>
    /\ LbFrame

\* handle_request with a balancer at hand or just created: the request goes to
\* the server get_next_server returns, or is answered 502 Bad Gateway.
HandleRequest(id) ==
    LET registry == EnsureLoadBalancer(load_balancers, id, proxy_processors[id])
        lb == registry[id]
        server_to_handle_request == GetNextServer(lb)
    IN  /\ Len(handled[id]) < MaxRequests
        /\ CheckLoadBalancerExists(registry, id)
        /\ load_balancers' = [registry EXCEPT ![id] = AdvanceCursor(lb)]
        /\ handled' = [handled EXCEPT ![id] =
                          Append(@, [cursor |-> lb.cursor,
                                     server |-> server_to_handle_request,
                                     response |-> IF server_to_handle_request = "none"
                                                  THEN "502" ELSE "forwarded"])]
        /\ UNCHANGED <<proxy_processors, proxy_requests>>
        /\ LbFrame

LbInit ==
    /\ proxy_processors \in [ProcessorIds -> ProxyProcessorConfigs]
    /\ load_balancers = [id \in ProcessorIds |-> NoBalancer]
    /\ handled = [id \in ProcessorIds |-> <<>>]
    /\ proxy_requests = <<>>

InitLb ==
    /\ LbInit
    /\ PMIdle
    /\ PathIdle
    /\ RSIdle
    /\ NormIdle
    /\ TlsIdle
    /\ AmIdle
    /\ CsIdle
    /\ ErhIdle
    /\ SrvIdle
    /\ PxIdle
    /\ FuIdle
    /\ AmcIdle
    /\ SupIdle
    /\ AccIdle
    /\ PtIdle

NextLb ==
    \/ \E id \in ProcessorIds : HandleRequestUnknownStrategy(id)
    \/ \E id \in ProcessorIds : HandleRequest(id)

SpecLb == InitLb /\ [][NextLb]_vars

\* ---- claims about the round-robin balancer

\* The servers handed out by calls i .. i + n - 1 of the processor.
Window(id, i, n) == [k \in 1..n |-> handled[id][i + k - 1].server]

\* The list, read cyclically from position c (counted from 0).
RotatedFrom(servers, c) ==
    [k \in 1..Len(servers) |-> servers[((c + k - 1) % Len(servers)) + 1]]

\* C20: over n >= 1 upstreams, every window of n consecutive get_next_server
\* calls returns each upstream exactly once, in list order starting at the
\* cursor; with upstreams [u1, u2, u3] four requests in a row go to u1, u2,
\* u3, u1; and a call returns None exactly if the list is empty.
C20_RoundRobinWindows ==
    \A id \in ProcessorIds :
        LET servers == proxy_processors[id].upstream_servers
            n == Len(servers)
            Calls == {i \in 1..Len(handled[id]) : handled[id][i].response # "500"}
        IN  /\ \A i \in Calls :
                (n >= 1 /\ i + n - 1 <= Len(handled[id])) =>
                    /\ Window(id, i, n) = RotatedFrom(servers, handled[id][i].cursor)
                    /\ \A u \in {servers[k] : k \in 1..n} :
                           Cardinality({k \in 1..n : Window(id, i, n)[k] = u}) = 1
            /\ (servers = <<"u1", "u2", "u3">> /\ Len(handled[id]) >= 4 /\ 1 \in Calls) =>
                   Window(id, 1, 4) = <<"u1", "u2", "u3", "u1">>
            /\ \A i \in Calls : handled[id][i].server = "none" <=> servers = <<>>

\* The processor with upstreams [u1, u2, u3] has handled four requests, the
\* other one, with no upstream, has answered one.
C20_Witness ==
    /\ proxy_processors["p1"].upstream_servers = <<"u1", "u2", "u3">>
    /\ Len(handled["p1"]) = 4
    /\ handled["p1"][4].server = "u1"
    /\ proxy_processors["p2"].upstream_servers = <<>>
    /\ Len(handled["p2"]) = 1
    /\ handled["p2"][1].response = "502"

(***************************************************************************)
(*                 REQUESTS OF ONE PROXY PROCESSOR SIDE BY SIDE            *)
(***************************************************************************)

\* How many requests run handle_request at the same time.
MaxConcurrent == 3

RequestIds == 1..MaxConcurrent

\* A request that has not arrived.
NoRequest == [id |-> "none", pc |-> "idle", saw_missing |-> FALSE]

\* handle_request is entered for a request of processor id.
RequestArrives(r, id) ==
    /\ proxy_requests[r].pc = "idle"
    /\ \A q \in RequestIds : q < r => proxy_requests[q].pc # "idle"
    /\ proxy_requests' = [proxy_requests EXCEPT ![r] = [NoRequest EXCEPT !.id = id, !.pc = "check"]]
    /\ UNCHANGED <<proxy_processors, load_balancers, handled>>
    /\ LbFrame

\* `if !load_balancer.check_load_balancer_exists(&self.id)` and the match on
\* the strategy: an unknown strategy answers 500.
RequestCheck(r) ==
    LET id == proxy_requests[r].id
    IN  /\ proxy_requests[r].pc = "check"
        /\ IF CheckLoadBalancerExists(load_balancers, id)
           THEN /\ proxy_requests' = [proxy_requests EXCEPT ![r].pc = "next"]
                /\ UNCHANGED handled
           ELSE IF proxy_processors[id].load_balancing_strategy = "round_robin"
           THEN /\ proxy_requests' = [proxy_requests EXCEPT ![r].pc = "create",
                                                            ![r].saw_missing = TRUE]
                /\ UNCHANGED handled
           ELSE /\ proxy_requests' = [proxy_requests EXCEPT ![r].pc = "done",
                                                            ![r].saw_missing = TRUE]
                /\ handled' = [handled EXCEPT ![id] =
                                  Append(@, [cursor |-> -1, server |-> "none",
                                             response |-> "500"])]
        /\ UNCHANGED <<proxy_processors, load_balancers>>
        /\ LbFrame

\* load_balancer.create_load_balancer(&self.id, lb_instance)
RequestCreate(r) ==
    LET id == proxy_requests[r].id
    IN  /\ proxy_requests[r].pc = "create"
        /\ load_balancers' =
               CreateLoadBalancer(load_balancers, id,
                                  RoundRobinNew(proxy_processors[id].upstream_servers))
        /\ proxy_requests' = [proxy_requests EXCEPT ![r].pc = "next"]
        /\ UNCHANGED <<proxy_processors, handled>>
        /\ LbFrame

\* lb.read().unwrap().get_next_server(): the server under the cursor is taken
\* and the cursor advanced in one step.
RequestGetNextServer(r) ==
    LET id == proxy_requests[r].id
        lb == load_balancers[id]
        server_to_handle_request == GetNextServer(lb)
    IN  /\ proxy_requests[r].pc = "next"
        /\ load_balancers' = [load_balancers EXCEPT ![id] = AdvanceCursor(lb)]
        /\ handled' = [handled EXCEPT ![id] =
                          Append(@, [cursor |-> lb.cursor,
                                     server |-> server_to_handle_request,
                                     response |-> IF server_to_handle_request = "none"
                                                  THEN "502" ELSE "forwarded"])]
        /\ proxy_requests' = [proxy_requests EXCEPT ![r].pc = "done"]
        /\ UNCHANGED proxy_processors
        /\ LbFrame

ConcInit ==
    /\ proxy_processors \in [ProcessorIds -> ProxyProcessorConfigs]
    /\ load_balancers = [id \in ProcessorIds |-> NoBalancer]
    /\ handled = [id \in ProcessorIds |-> <<>>]
    /\ proxy_requests = [r \in RequestIds |-> NoRequest]

InitConc ==
    /\ ConcInit
    /\ PMIdle
    /\ PathIdle
    /\ RSIdle
    /\ NormIdle
    /\ TlsIdle
    /\ AmIdle
    /\ CsIdle
    /\ ErhIdle
    /\ SrvIdle
    /\ PxIdle
    /\ FuIdle
    /\ AmcIdle
    /\ SupIdle
    /\ AccIdle
    /\ PtIdle

NextConc ==
    \/ \E r \in RequestIds, id \in ProcessorIds : RequestArrives(r, id)
    \/ \E r \in RequestIds : RequestCheck(r)
    \/ \E r \in RequestIds : RequestCreate(r)
    \/ \E r \in RequestIds : RequestGetNextServer(r)

SpecConc == InitConc /\ [][NextConc]_vars

\* ---- claims about concurrent requests

\* What k get_next_server calls made one after the other return.
SequentialServers(servers, k) ==
    [i \in 1..k |-> IF servers = <<>> THEN "none"
                    ELSE servers[((i - 1) % Len(servers)) + 1]]

\* How often u occurs in the sequence.
Occurrences(seq, u) == Cardinality({i \in 1..Len(seq) : seq[i] = u})

\* The get_next_server calls among the handled requests.
NextCalls(id) == SelectSeq(handled[id], LAMBDA h : h.response # "500")

HandlerIds == {"h1", "h2"}

HandlerTypes == {"php", "fcgi"}

\* config.get("request_handlers"): two handlers, in the order of the list.
RequestHandlerLists ==
    {<<[id |-> "h1", is_enabled |-> e1, handler_type |-> t1],
       [id |-> "h2", is_enabled |-> e2, handler_type |-> t2]>> :
        e1 \in BOOLEAN, e2 \in BOOLEAN, t1 \in HandlerTypes, t2 \in HandlerTypes}

\* The sites of all bindings of all servers, in the order of the loops.
ErhSiteLists ==
    {<<[is_enabled |-> e1, enabled_handlers |-> hs1],
       [is_enabled |-> e2, enabled_handlers |-> hs2]>> :
        e1 \in BOOLEAN, e2 \in BOOLEAN, hs1 \in SUBSET HandlerIds, hs2 \in SUBSET HandlerIds}

\* handler_ids_used: every id in enabled_handlers of any site.
HandlerIdsUsed(site_list) ==
    UNION {site_list[i].enabled_handlers : i \in 1..Len(site_list)}

\* handler_type_to_load after the first i handlers of the list: per type, the
\* first enabled handler whose id is used.
RECURSIVE HandlerTypeToLoad(_, _, _)
HandlerTypeToLoad(handler_list, ids_used, i) ==
    IF i = 0 THEN [ty \in HandlerTypes |-> "none"]
    ELSE LET before == HandlerTypeToLoad(handler_list, ids_used, i - 1)
             handler == handler_list[i]
         IN  IF /\ handler.is_enabled
                /\ handler.id \in ids_used
                /\ before[handler.handler_type] = "none"
             THEN [before EXCEPT ![handler.handler_type] = handler.id]
             ELSE before

\* start_external_request_handlers: the handlers started, as the ids of their
\* configuration; only the type "php" has an implementation.
StartExternalRequestHandlers(config) ==
    LET to_load == HandlerTypeToLoad(config.request_handlers,
                                     HandlerIdsUsed(config.sites),
                                     Len(config.request_handlers))
    IN  IF to_load["php"] = "none" THEN <<>> ELSE <<to_load["php"]>>

ErhFrame == UNCHANGED <<pmVars, pathVars, rsVars, normVars, tlsVars, amVars, csVars, lbVars, srvVars, pxVars, fuVars, amcVars, supVars, accVars, ptVars>>

\* get_request_handlers, the first call: HANDLERS.get_or_init
GetRequestHandlersFirst ==
    /\ erh_handlers = <<"unset">>
    /\ erh_handlers' = StartExternalRequestHandlers(erh_config)
    /\ UNCHANGED erh_config
    /\ ErhFrame

\* get_request_handlers, a later call: HANDLERS is returned as it is.
GetRequestHandlersAgain ==
    /\ erh_handlers # <<"unset">>
    /\ UNCHANGED erhVars
    /\ ErhFrame

ErhInit ==
    /\ erh_config \in [sites : ErhSiteLists, request_handlers : RequestHandlerLists]
    /\ erh_handlers = <<"unset">>

InitErh ==
    /\ ErhInit
    /\ PMIdle
    /\ PathIdle
    /\ RSIdle
    /\ NormIdle
    /\ TlsIdle
    /\ AmIdle
    /\ CsIdle
    /\ LbIdle
    /\ SrvIdle
    /\ PxIdle
    /\ FuIdle
    /\ AmcIdle
    /\ SupIdle
    /\ AccIdle
    /\ PtIdle

NextErh ==
    \/ GetRequestHandlersFirst
    \/ GetRequestHandlersAgain

SpecErh == InitErh /\ [][NextErh]_vars

\* ---- claims about the external request handlers

ErhStarted == erh_handlers # <<"unset">>

\* The handlers of the configuration.
ConfiguredHandlers ==
    {erh_config.request_handlers[i] : i \in 1..Len(erh_config.request_handlers)}

\* The handler has been started.
IsStarted(handler) == \E i \in 1..Len(erh_handlers) : erh_handlers[i] = handler.id

\* Some enabled site lists the id in its enabled_handlers.
ReferencedByEnabledSite(id) ==
    \E i \in 1..Len(erh_config.sites) :
        erh_config.sites[i].is_enabled /\ id \in erh_config.sites[i].enabled_handlers

\* C22: a handler is started exactly if it is enabled and an enabled site
\* lists its id; a handler that only disabled sites or no site refer to is
\* not started; and no handler type gets more than one supervisor.
C22_StartedIffEnabledAndReferenced ==
    ErhStarted =>
        /\ \A handler \in ConfiguredHandlers :
               IsStarted(handler)
                   <=> (handler.is_enabled /\ ReferencedByEnabledSite(handler.id))
        /\ \A ty \in HandlerTypes :
               Cardinality({handler \in ConfiguredHandlers :
                               IsStarted(handler) /\ handler.handler_type = ty}) <= 1

\* The part of C22 that the code keeps: a started handler is enabled and
\* listed by some site, and each handler type has at most one supervisor.
C22_StartedAreEnabledAndListed ==
    ErhStarted =>
        /\ \A handler \in ConfiguredHandlers :
               IsStarted(handler) =>
                   /\ handler.is_enabled
                   /\ handler.id \in HandlerIdsUsed(erh_config.sites)
        /\ Len(erh_handlers) <= 1

\* The php handler h1 is listed by a disabled site only and has been started.
C22_Witness ==
    /\ ErhStarted
    /\ erh_config.sites[1] = [is_enabled |-> FALSE, enabled_handlers |-> {"h1"}]
    /\ erh_config.sites[2] = [is_enabled |-> TRUE, enabled_handlers |-> {}]
    /\ erh_config.request_handlers[1] = [id |-> "h1", is_enabled |-> TRUE, handler_type |-> "php"]
    /\ erh_handlers = <<"h1">>

(***************************************************************************)
(*          THE SHARED ACME MANAGER OVER CONFIGURATION RELOADS             *)
(***************************************************************************)

\* The configurations a reload may bring: the account email, whether the
\* certificate cache directory can be created, and the hostname of the one
\* automatic site.
ReloadConfigs ==
    {cfg \in AcmeConfigs :
        /\ cfg.is_tls = [b \in BindingIds |-> TRUE]
        /\ cfg.sites["s2"] = [is_enabled |-> FALSE, tls_automatic_enabled |-> FALSE,
                              hostnames |-> <<(<<>>)>>]
        /\ cfg.sites["s1"].is_enabled
        /\ cfg.sites["s1"].tls_automatic_enabled
        /\ cfg.sites["s1"].hostnames \in {<<LocalhostName>>, <<(<<"x", ".", "w">>)>>,
                                          <<(<<"x", "w">>)>>}}

\* The configuration is saved with new content and a reload is asked for.
ConfigurationReloaded(cfg) ==
    /\ acme_reload.pc = "idle"
    /\ cfg # acme_config
    /\ acme_config' = cfg
    /\ UNCHANGED <<acme_manager, acme_reload>>
    /\ AmFrame

\* initialize_shared_acme_manager, first part: shutdown_shared_acme_manager
\* takes the existing manager out and cancels its polling task.
InitializeShutdownExisting ==
    /\ acme_reload.pc = "idle"
    /\ acme_reload' = [pc |-> "create",
                       previous |-> acme_manager.manager,
                       previous_domains |-> acme_manager.domains,
                       polling_cancelled |-> acme_manager.manager = "some"]
    /\ acme_manager' = [acme_manager EXCEPT !.manager = "none", !.domains = {}]
    /\ UNCHANGED acme_config
    /\ AmFrame

\* initialize_shared_acme_manager, second part: `create_shared_acme_manager().await?`
\* and, unless that returned Err, the store of the new manager.
InitializeCreateAndStore ==
    LET new_manager == CreateSharedAcmeManager(acme_config)
    IN  /\ acme_reload.pc = "create"
        /\ acme_manager' = IF new_manager.result = "err"
                           THEN [acme_manager EXCEPT !.result = "err"]
                           ELSE new_manager
        /\ acme_reload' = [acme_reload EXCEPT !.pc = "idle"]
        /\ UNCHANGED acme_config
        /\ AmFrame

AmReloadInit ==
    /\ acme_config \in ReloadConfigs
    /\ acme_manager = [manager |-> "none", domains |-> {}, result |-> "not_called"]
    /\ acme_reload = [pc |-> "idle", previous |-> "none", previous_domains |-> {},
                      polling_cancelled |-> FALSE]

InitAmReload ==
    /\ AmReloadInit
    /\ PMIdle
    /\ PathIdle
    /\ RSIdle
    /\ NormIdle
    /\ TlsIdle
    /\ CsIdle
    /\ LbIdle
    /\ ErhIdle
    /\ SrvIdle
    /\ PxIdle
    /\ FuIdle
    /\ AmcIdle
    /\ SupIdle
    /\ AccIdle
    /\ PtIdle

NextAmReload ==
    \/ \E cfg \in ReloadConfigs : ConfigurationReloaded(cfg)
    \/ InitializeShutdownExisting
    \/ InitializeCreateAndStore

SpecAmReload == InitAmReload /\ [][NextAmReload]_vars

\* ---- claims about a failing reload

\* The last initialization has returned Err.
InitializationFailed == acme_reload.pc = "idle" /\ acme_manager.result = "err"

\* C23: a failure while the new state is built during a reload, the failure to
\* create the new shared ACME manager included, leaves the old state in
\* service: the ACME manager that was published before is still the one
\* readers obtain, and its polling task still runs.
C23_FailedReloadKeepsOldManager ==
    InitializationFailed =>
        /\ acme_manager.manager = acme_reload.previous
        /\ acme_manager.domains = acme_reload.previous_domains
        /\ ~acme_reload.polling_cancelled

\* What holds after a failed initialization: no manager is published.
C23_FailedReloadLeavesNoManager ==
    InitializationFailed => (acme_manager.manager = "none" /\ acme_manager.domains = {})

\* A manager for x.w was in service, the reload with a cache directory that
\* cannot be created has failed, and readers now obtain no manager.
C23_Witness ==
    /\ InitializationFailed
    /\ acme_reload.previous = "some"
    /\ acme_reload.previous_domains = {<<"x", ".", "w">>}
    /\ acme_reload.polling_cancelled
    /\ acme_manager.manager = "none"

(***************************************************************************)
(*                    THE HTTP SERVER AND ITS BINDINGS                     *)
(***************************************************************************)

\* How many connections a binding accepts.
MaxAccepted == 1

\* The bindings of the configuration: whether the ip parses, whether the
\* address can be bound, whether TLS is asked for and can be set up, and
\* whether the binding is the admin one.
ServerBindings ==
    [ip_valid : BOOLEAN, bind_ok : BOOLEAN, is_tls : BOOLEAN, tls_ok : BOOLEAN,
     is_admin : BOOLEAN]

BindingOrder == <<"b1", "b2">>

\* The future of a binding before initialize_server reaches it.
NotStarted == [state |-> "none", warned |-> FALSE, accepted |-> 0]

SrvFrame == UNCHANGED <<pmVars, pathVars, rsVars, normVars, tlsVars, amVars, csVars, lbVars, erhVars, pxVars, fuVars, amcVars, supVars, accVars, ptVars>>

\* initialize_server is called.
InitializeServerCall ==
    /\ srv_server.pc = "idle"
    /\ srv_server' = [pc |-> "loop", k |-> 1]
    /\ UNCHANGED <<srv_bindings, srv_binding_state, srv_validation>>
    /\ SrvFrame

\* One turn of the loop over the bindings: the ip is parsed (`?` returns Err
\* and drops the futures made so far), a non-TLS admin binding is warned
\* about, and the future of start_server_binding is pushed.
InitializeServerLoop ==
    LET binding == srv_bindings[srv_server.k]
        last == srv_server.k = Len(srv_bindings)
    IN  /\ srv_server.pc = "loop"
        /\ IF ~binding.ip_valid
           THEN /\ srv_server' = [pc |-> "returned_err", k |-> srv_server.k]
                /\ srv_binding_state' =
                       [i \in DOMAIN srv_binding_state |->
                           IF srv_binding_state[i].state = "created"
                           THEN [srv_binding_state[i] EXCEPT !.state = "dropped"]
                           ELSE srv_binding_state[i]]
           ELSE /\ srv_server' = [pc |-> IF last THEN "join_all" ELSE "loop",
                                  k |-> IF last THEN srv_server.k ELSE srv_server.k + 1]
                /\ srv_binding_state' =
                       [srv_binding_state EXCEPT ![srv_server.k] =
                           [state |-> "created",
                            warned |-> binding.is_admin /\ ~binding.is_tls,
                            accepted |-> 0]]
        /\ UNCHANGED <<srv_bindings, srv_validation>>
        /\ SrvFrame

\* join_all polls the future of binding i: TcpListener::bind(addr).await.unwrap().
\* A failed bind panics in the task that runs join_all, which is the main
\* task: the process ends and every binding with it.
BindingBind(i) ==
    /\ srv_server.pc = "join_all"
    /\ srv_binding_state[i].state = "created"
    /\ IF srv_bindings[i].bind_ok
       THEN /\ srv_binding_state' = [srv_binding_state EXCEPT ![i].state = "listening"]
            /\ UNCHANGED srv_server
       ELSE /\ srv_binding_state' =
                   [j \in DOMAIN srv_binding_state |->
                       [srv_binding_state[j] EXCEPT !.state = "dead"]]
            /\ srv_server' = [srv_server EXCEPT !.pc = "panicked"]
    /\ UNCHANGED <<srv_bindings, srv_validation>>
    /\ SrvFrame

\* build_tls_acceptor for a TLS binding: on Err the future logs and returns.
BindingTlsSetup(i) ==
    /\ srv_server.pc = "join_all"
    /\ srv_binding_state[i].state = "listening"
    /\ srv_binding_state' =
           [srv_binding_state EXCEPT ![i].state =
               IF srv_bindings[i].is_tls /\ ~srv_bindings[i].tls_ok
               THEN "refused" ELSE "accepting"]
    /\ UNCHANGED <<srv_bindings, srv_server, srv_validation>>
    /\ SrvFrame

\* The accept loop of binding i takes a connection.
BindingAccept(i) ==
    /\ srv_server.pc = "join_all"
    /\ srv_binding_state[i].state = "accepting"
    /\ srv_binding_state[i].accepted < MaxAccepted
    /\ srv_binding_state' = [srv_binding_state EXCEPT ![i].accepted = @ + 1]
    /\ UNCHANGED <<srv_bindings, srv_server, srv_validation>>
    /\ SrvFrame

SrvInit ==
    /\ srv_bindings \in [1..Len(BindingOrder) -> ServerBindings]
    /\ srv_server = [pc |-> "idle", k |-> 0]
    /\ srv_binding_state = [i \in 1..Len(BindingOrder) |-> NotStarted]
    /\ srv_validation = NoValidation

InitSrv ==
    /\ SrvInit
    /\ PMIdle
    /\ PathIdle
    /\ RSIdle
    /\ NormIdle
    /\ TlsIdle
    /\ AmIdle
    /\ CsIdle
    /\ LbIdle
    /\ ErhIdle
    /\ PxIdle
    /\ FuIdle
    /\ AmcIdle
    /\ SupIdle
    /\ AccIdle
    /\ PtIdle

NextSrv ==
    \/ InitializeServerCall
    \/ InitializeServerLoop
    \/ \E i \in 1..Len(BindingOrder) : BindingBind(i)
    \/ \E i \in 1..Len(BindingOrder) : BindingTlsSetup(i)
    \/ \E i \in 1..Len(BindingOrder) : BindingAccept(i)

SpecSrv == InitSrv /\ [][NextSrv]_vars

\* ---- claims about the bindings

\* Nothing keeps the binding itself from starting.
StartsByItself(binding) ==
    binding.ip_valid /\ binding.bind_ok /\ (binding.is_tls => binding.tls_ok)

\* The binding's future has been dropped or has died with the process.
TakenDown(i) == srv_binding_state[i].state \in {"dropped", "dead"}

\* C24: when TLS setup fails for one binding, or the binding fails to start
\* for another reason, only that binding stays down: no other configured
\* binding is kept from starting or stopped from accepting connections.
C24_FailingBindingLeavesOthers ==
    \A i \in DOMAIN srv_binding_state :
        StartsByItself(srv_bindings[i]) => ~TakenDown(i)

\* The part of C24 about TLS: when every binding's ip parses and address
\* binds, a binding whose TLS setup fails takes no other binding down.
C24_TlsFailureLeavesOthers ==
    (\A j \in DOMAIN srv_bindings : srv_bindings[j].ip_valid /\ srv_bindings[j].bind_ok)
        => \A i \in DOMAIN srv_binding_state : ~TakenDown(i)

\* The first binding was accepting connections when the bind of the second
\* one failed, and it is gone with the process.
C24_Witness ==
    /\ StartsByItself(srv_bindings[1])
    /\ srv_bindings[2].ip_valid /\ ~srv_bindings[2].bind_ok
    /\ srv_binding_state[1].state = "dead"
    /\ srv_binding_state[1].accepted = 1
    /\ srv_server.pc = "panicked"

\* TLS setup failed for the second binding and the first one is accepting.
C24_WitnessTls ==
    /\ srv_binding_state[2].state = "refused"
    /\ srv_binding_state[1].state = "accepting"
    /\ srv_binding_state[1].accepted = 1

\* ---- Binding::validate

\* The bindings handed to validate: the ip as empty, unparsable or parsable,
\* the port, the two flags and whether the binding has no site.
ValidatedBindings ==
    [ip : {"", "not-an-ip", "0.0.0.0"}, port : {0, 80, 443, 8000, 8443},
     is_tls : BOOLEAN, is_admin : BOOLEAN, sites_is_empty : BOOLEAN]

\* self.ip.parse::<std::net::IpAddr>().is_err(), for the ips above
IpParseIsErr(ip) == ip # "0.0.0.0"

\* Binding::validate: the errors collected; Ok(()) iff there is none.
ValidateBinding(self) ==
    (IF self.ip = "" THEN {"IP address cannot be empty"}
     ELSE IF IpParseIsErr(self.ip) THEN {"Invalid IP address"} ELSE {})
    \cup (IF self.port = 0 THEN {"Port cannot be 0"} ELSE {})
    \cup (IF self.is_tls /\ self.port = 80 THEN {"Port 80 is typically used for HTTP"} ELSE {})
    \cup (IF ~self.is_tls /\ self.port = 443
          THEN {"Port 443 is typically used for HTTPS"} ELSE {})
    \cup (IF self.is_admin /\ ~self.is_tls
          THEN {"Admin binding should use TLS for security"} ELSE {})
    \cup (IF self.is_admin /\ self.sites_is_empty
          THEN {"Admin binding must have at least one site configured"} ELSE {})

\* binding.validate()
CallValidate(binding) ==
    /\ srv_validation' = [called |-> TRUE, binding |-> binding,
                          errors |-> ValidateBinding(binding)]
    /\ UNCHANGED <<srv_bindings, srv_server, srv_binding_state>>
    /\ SrvFrame

InitValidate ==
    /\ SrvIdle
    /\ PMIdle
    /\ PathIdle
    /\ RSIdle
    /\ NormIdle
    /\ TlsIdle
    /\ AmIdle
    /\ CsIdle
    /\ LbIdle
    /\ ErhIdle
    /\ PxIdle
    /\ FuIdle
    /\ AmcIdle
    /\ SupIdle
    /\ AccIdle
    /\ PtIdle

NextValidate == \E binding \in ValidatedBindings : CallValidate(binding)

SpecValidate == InitValidate /\ [][NextValidate]_vars

\* ---- claims about a non-TLS admin binding

\* Nothing but the missing TLS can be held against the validated binding.
OtherwiseValid(binding) ==
    /\ binding.ip = "0.0.0.0"
    /\ binding.port \in {80, 8000, 8443}
    /\ ~binding.sites_is_empty

\* C29: a binding with is_admin = true and is_tls = false is accepted:
\* validation does not reject it.
C29_NonTlsAdminPassesValidation ==
    (/\ srv_validation.called
     /\ srv_validation.binding.is_admin
     /\ ~srv_validation.binding.is_tls
     /\ OtherwiseValid(srv_validation.binding))
        => srv_validation.errors = {}

\* The other half of C29, under SpecSrv: initialize_server makes the future
\* of a non-TLS admin binding like that of any other binding, with a warning.
C29_NonTlsAdminStartedWithWarning ==
    \A i \in DOMAIN srv_binding_state :
        srv_binding_state[i].state # "none" =>
            (srv_binding_state[i].warned
                 <=> (srv_bindings[i].is_admin /\ ~srv_bindings[i].is_tls))

\* validate has returned Err for an admin binding on port 8000 without TLS
\* that has a site and a parsable ip.
C29_Witness ==
    /\ srv_validation.called
    /\ srv_validation.binding = [ip |-> "0.0.0.0", port |-> 8000, is_tls |-> FALSE,
                                 is_admin |-> TRUE, sites_is_empty |-> FALSE]
    /\ srv_validation.errors = {"Admin binding should use TLS for security"}

(***************************************************************************)
(*                 THE PROXY PROCESSOR'S ANSWER TO A REQUEST               *)
(***************************************************************************)

\* The header names of the code, as http::HeaderMap keys them (lower case).
HdrName(name) ==
    CASE name = "Connection" -> "connection"
      [] name = "Upgrade" -> "upgrade"
      [] name = "Keep-Alive" -> "keep-alive"
      [] name = "Proxy-Authenticate" -> "proxy-authenticate"
      [] name = "Proxy-Authorization" -> "proxy-authorization"
      [] name = "TE" -> "te"
      [] name = "Trailers" -> "trailers"
      [] name = "Transfer-Encoding" -> "transfer-encoding"
      [] name = "X-Forwarded-For" -> "x-forwarded-for"
      [] name = "X-Forwarded-Host" -> "x-forwarded-host"
      [] name = "X-Forwarded-Proto" -> "x-forwarded-proto"
      [] name = "Vary" -> "vary"
      [] name = "Server" -> "server"
      [] name = "Content-Type" -> "content-type"

\* The hop_by_hop_headers array of clean_update_response_headers.
HopByHopHeaders ==
    {"Keep-Alive", "Proxy-Authenticate", "Proxy-Authorization", "TE", "Trailers",
     "Transfer-Encoding"}

\* The header sets an upstream answers with.
UpstreamHeaderSets ==
    {{"content-type"},
     {"content-type", "connection", "upgrade"},
     {"content-type", "connection", "upgrade"} \cup {HdrName(h) : h \in HopByHopHeaders},
     {"content-type", "te", "x-forwarded-host"},
     {"connection"},
     {"upgrade"} \cup {HdrName(h) : h \in HopByHopHeaders}}

\* What client.request(proxy_request).await gives: Err, or a response with a
\* status and headers; a 101 may carry an OnUpgrade in its extensions.
UpstreamResults ==
    {[kind |-> "err", status |-> 0, headers |-> {}, upstream_upgrade |-> FALSE]}
        \cup [kind : {"ok"}, status : {200}, headers : UpstreamHeaderSets,
              upstream_upgrade : {FALSE}]
        \cup [kind : {"ok"}, status : {101}, headers : UpstreamHeaderSets,
              upstream_upgrade : BOOLEAN]

\* empty_response_with_status, with the standard headers
EmptyResponseWithStatus(status) ==
    [result |-> "Ok", status |-> status,
     headers |-> {HdrName("Vary"), HdrName("Server"), HdrName("Content-Type")},
     bridged |-> FALSE]

\* A mutant of the Err arm of client.request: the error is handed on.
UpstreamErrorHandedOn ==
    [result |-> "Err", status |-> 0, headers |-> {}, bridged |-> FALSE]

\* The Err arm of `match client.request(proxy_request).await`.
UpstreamError == EmptyResponseWithStatus(502)

\* A mutant of clean_update_response_headers: Connection and Upgrade are
\* always removed.
CleanUpdateResponseHeadersAlways(headers, is_websocket_upgrade) ==
    ((headers \ {HdrName("Connection"), HdrName("Upgrade")})
         \ {HdrName(h) : h \in HopByHopHeaders})
        \cup {HdrName("X-Forwarded-For"), HdrName("X-Forwarded-Host"),
              HdrName("X-Forwarded-Proto")}

\* clean_update_response_headers: the headers of the response afterwards.
CleanUpdateResponseHeaders(headers, is_websocket_upgrade) ==
    LET kept == IF ~is_websocket_upgrade
                THEN headers \ {HdrName("Connection"), HdrName("Upgrade")}
                ELSE headers
    IN  (kept \ {HdrName(h) : h \in HopByHopHeaders})
            \cup {HdrName("X-Forwarded-For"), HdrName("X-Forwarded-Host"),
                  HdrName("X-Forwarded-Proto")}

\* The Ok arm of `match client.request(proxy_request).await`: a 101 with both
\* upgrade handles at hand is bridged, and the headers are cleaned.
UpstreamAnswered(resp, client_upgrade) ==
    LET is_websocket_upgrade ==
            resp.status = 101 /\ client_upgrade /\ resp.upstream_upgrade
    IN  [result |-> "Ok", status |-> resp.status,
         headers |-> CleanUpdateResponseHeaders(resp.headers, is_websocket_upgrade),
         bridged |-> is_websocket_upgrade]

\* What handle_request returns once the balancer has answered.
ForwardRequest(server, request_ok, client_upgrade, upstream) ==
    IF server = "none" THEN EmptyResponseWithStatus(502)
    ELSE IF ~request_ok THEN EmptyResponseWithStatus(500)
    ELSE IF upstream.kind = "err" THEN UpstreamError
    ELSE UpstreamAnswered(upstream, client_upgrade)

PxFrame ==
    UNCHANGED <<pmVars, pathVars, rsVars, normVars, tlsVars, amVars, csVars, erhVars, srvVars,
                fuVars, amcVars, supVars, accVars, ptVars>>

\* handle_request from its first line to its return; request_ok says whether
\* get_streaming_http_request succeeds, client_upgrade whether take_upgrade
\* gives a handle, upstream what the upstream does.  The history of the
\* balancer's calls is not kept here.
HandleRequestAndAnswer(id, request_ok, client_upgrade, upstream) ==
    LET registry == EnsureLoadBalancer(load_balancers, id, proxy_processors[id])
        exists == CheckLoadBalancerExists(registry, id)
        lb == registry[id]
    IN  /\ load_balancers' = IF exists THEN [registry EXCEPT ![id] = AdvanceCursor(lb)]
                             ELSE registry
        /\ proxy_response' =
               [called |-> TRUE, id |-> id, request_ok |-> request_ok,
                client_upgrade |-> client_upgrade, upstream |-> upstream,
                returned |-> IF ~exists THEN EmptyResponseWithStatus(500)
                             ELSE ForwardRequest(GetNextServer(lb), request_ok,
                                                 client_upgrade, upstream)]
        /\ UNCHANGED <<proxy_processors, handled, proxy_requests>>
        /\ PxFrame

PxInit ==
    /\ proxy_processors \in [ProcessorIds -> ProxyProcessorConfigs]
    /\ proxy_processors["p2"] = [upstream_servers |-> <<"u1">>,
                                 load_balancing_strategy |-> "round_robin"]
    /\ load_balancers = [id \in ProcessorIds |-> NoBalancer]
    /\ handled = [id \in ProcessorIds |-> <<>>]
    /\ proxy_requests = <<>>
    /\ proxy_response = NoResponse

InitPx ==
    /\ PxInit
    /\ PMIdle
    /\ PathIdle
    /\ RSIdle
    /\ NormIdle
    /\ TlsIdle
    /\ AmIdle
    /\ CsIdle
    /\ ErhIdle
    /\ SrvIdle
    /\ FuIdle
    /\ AmcIdle
    /\ SupIdle
    /\ AccIdle
    /\ PtIdle

NextPx ==
    \E id \in ProcessorIds, request_ok \in BOOLEAN, client_upgrade \in BOOLEAN,
       upstream \in UpstreamResults :
        HandleRequestAndAnswer(id, request_ok, client_upgrade, upstream)

SpecPx == InitPx /\ [][NextPx]_vars

\* ---- claims about the proxy processor's answer

\* The configuration of the processor that answered.
Answering == proxy_processors[proxy_response.id]

\* C25: handle_request always returns a response and never an error: 500 for
\* an unsupported strategy; else 502 when the balancer has no upstream to
\* give; else 500 when the outgoing request cannot be made; else 502 when the
\* upstream request fails.
C25_AlwaysAResponse ==
    proxy_response.called =>
        LET returned == proxy_response.returned
        IN  /\ returned.result = "Ok"
            /\ IF Answering.load_balancing_strategy # "round_robin"
               THEN returned.status = 500
               ELSE IF Answering.upstream_servers = <<>>
               THEN returned.status = 502
               ELSE IF ~proxy_response.request_ok
               THEN returned.status = 500
               ELSE proxy_response.upstream.kind = "err" => returned.status = 502

\* The upstream request of a processor with upstreams has failed and the
\* answer is 502.
C25_Witness ==
    /\ proxy_response.called
    /\ Answering.load_balancing_strategy = "round_robin"
    /\ Answering.upstream_servers # <<>>
    /\ proxy_response.request_ok
    /\ proxy_response.upstream.kind = "err"
    /\ proxy_response.returned.status = 502

\* An upstream has answered the request.
UpstreamHasAnswered ==
    /\ proxy_response.called
    /\ Answering.load_balancing_strategy = "round_robin"
    /\ Answering.upstream_servers # <<>>
    /\ proxy_response.request_ok
    /\ proxy_response.upstream.kind = "ok"

\* The answer is a 101 to an upgrade request, with both upgrade handles.
IsUpgradeResponse ==
    /\ proxy_response.upstream.status = 101
    /\ proxy_response.client_upgrade
    /\ proxy_response.upstream.upstream_upgrade

\* C26: from every upstream response the proxy removes Keep-Alive,
\* Proxy-Authenticate, Proxy-Authorization, TE, Trailers and
\* Transfer-Encoding; it removes Connection and Upgrade exactly from the
\* responses that are no upgrade; a 101 to a WebSocket upgrade keeps both and
\* the two connections are bridged.
C26_HopByHopRemovedUpgradeKept ==
    UpstreamHasAnswered =>
        LET before == proxy_response.upstream.headers
            after == proxy_response.returned.headers
        IN  /\ after \cap {"keep-alive", "proxy-authenticate", "proxy-authorization",
                           "te", "trailers", "transfer-encoding"} = {}
            /\ \A h \in {"connection", "upgrade"} :
                   /\ ~IsUpgradeResponse => h \notin after
                   /\ IsUpgradeResponse => (h \in after <=> h \in before)
            /\ proxy_response.returned.bridged <=> IsUpgradeResponse
            /\ "content-type" \in after <=> "content-type" \in before

\* A 101 with Connection, Upgrade and the hop-by-hop headers has come back to
\* an upgrade request: Connection and Upgrade are kept, the rest is gone and
\* the connections are bridged.
C26_Witness ==
    /\ UpstreamHasAnswered
    /\ IsUpgradeResponse
    /\ proxy_response.upstream.headers
           = {"content-type", "connection", "upgrade"}
                 \cup {HdrName(h) : h \in HopByHopHeaders}
    /\ proxy_response.returned.headers
           = {"content-type", "connection", "upgrade", "x-forwarded-for",
              "x-forwarded-host", "x-forwarded-proto"}
    /\ proxy_response.returned.bridged

\* A 200 with Connection and Upgrade has come back: both are removed.
C26_WitnessPlain ==
    /\ UpstreamHasAnswered
    /\ proxy_response.upstream.status = 200
    /\ {"connection", "upgrade"} \subseteq proxy_response.upstream.headers
    /\ proxy_response.returned.headers \cap {"connection", "upgrade"} = {}

(***************************************************************************)
(*                  replace_web_root_in_path AND split_path                *)
(***************************************************************************)

\* The longest path handed to the two functions.
MaxFilePathLen == 4

FilePathChars == {"/", "a", "\\"}

FilePaths == UNION {[1..k -> FilePathChars] : k \in 0..MaxFilePathLen}

\* The web roots and base paths: empty, the root, a directory, the same with
\* a trailing slash and in Windows style, a relative one, a deeper one.
WebRoots ==
    {<<>>, <<"/">>, <<"/", "a">>, <<"/", "a", "/">>, <<"\\", "a">>, <<"a">>,
     <<"/", "a", "/", "a">>}

\* replace_web_root_in_path (the same in grux_file_util and file::file_util)
ReplaceWebRootInPath(original_path, old_web_root, new_web_root) ==
    LET old_web_root_cleaned == TrimEndSlashes(ReplaceBackslash(old_web_root))
        new_web_root_cleaned == TrimEndSlashes(ReplaceBackslash(new_web_root))
    IN  IF StartsWith(original_path, old_web_root_cleaned)
        THEN LET relative_part ==
                     TrimStartSlashes(SubSeq(original_path, Len(old_web_root_cleaned) + 1,
                                             Len(original_path)))
             IN  IF relative_part = <<>> THEN new_web_root_cleaned
                 ELSE new_web_root_cleaned \o <<"/">> \o relative_part
        ELSE original_path

FuFrame == UNCHANGED <<pmVars, pathVars, rsVars, normVars, tlsVars, amVars, csVars, lbVars, erhVars, srvVars, pxVars, amcVars, supVars, accVars, ptVars>>

\* replace_web_root_in_path(p, a, b)
CallReplaceWebRootInPath(original_path, old_web_root, new_web_root) ==
    /\ fu_call = NoCall
    /\ fu_call' = [fn |-> "replace_web_root_in_path",
                   original_path |-> original_path,
                   old_web_root |-> old_web_root,
                   new_web_root |-> new_web_root,
                   result |-> ReplaceWebRootInPath(original_path, old_web_root,
                                                   new_web_root)]
    /\ FuFrame

\* replace_web_root_in_path(r, b, a) on the result r of the call before.
CallReplaceWebRootBack ==
    /\ fu_call.fn = "replace_web_root_in_path"
    /\ fu_call' = [fn |-> "replace_web_root_back",
                   first_path |-> fu_call.original_path,
                   original_path |-> fu_call.result,
                   old_web_root |-> fu_call.new_web_root,
                   new_web_root |-> fu_call.old_web_root,
                   result |-> ReplaceWebRootInPath(fu_call.result, fu_call.new_web_root,
                                                   fu_call.old_web_root)]
    /\ FuFrame

\* grux_file_util::split_path(base_path, path_str)
CallSplitPath(base, path_str) ==
    /\ fu_call = NoCall
    /\ fu_call' = [fn |-> "split_path", module |-> "grux_file_util",
                   base_path |-> base, path_str |-> path_str,
                   result |-> SplitPath(base, path_str)]
    /\ FuFrame

\* file::file_util::split_path(base_path, path_str)
CallFileSplitPath(base, path_str) ==
    /\ fu_call = NoCall
    /\ fu_call' = [fn |-> "split_path", module |-> "file::file_util",
                   base_path |-> base, path_str |-> path_str,
                   result |-> FileSplitPath(base, path_str)]
    /\ FuFrame

\* The caller has used the result; the functions keep nothing between calls
\* but a cache keyed by all the arguments.
CallerDone ==
    /\ fu_call # NoCall
    /\ fu_call' = NoCall
    /\ FuFrame

InitFu ==
    /\ FuIdle
    /\ PMIdle
    /\ PathIdle
    /\ RSIdle
    /\ NormIdle
    /\ TlsIdle
    /\ AmIdle
    /\ CsIdle
    /\ LbIdle
    /\ ErhIdle
    /\ SrvIdle
    /\ PxIdle
    /\ AmcIdle
    /\ SupIdle
    /\ AccIdle
    /\ PtIdle

NextFu ==
    \/ \E path \in FilePaths, a \in WebRoots, b \in WebRoots :
           CallReplaceWebRootInPath(path, a, b)
    \/ CallReplaceWebRootBack
    \/ \E base \in WebRoots, path \in FilePaths : CallSplitPath(base, path)
    \/ \E base \in WebRoots, path \in FilePaths : CallFileSplitPath(base, path)
    \/ CallerDone

SpecFu == InitFu /\ [][NextFu]_vars

\* ---- claims about the two path functions

\* A root or path as the callers are expected to pass it: forward slashes
\* only and no trailing slash.
IsCleaned(s) == TrimEndSlashes(ReplaceBackslash(s)) = s

\* p is the root itself or root + "/" + rel for a rel that is not empty and
\* does not begin with a slash.
IsUnder(path, root) ==
    \/ path = root
    \/ /\ StartsWith(path, root \o <<"/">>)
       /\ Len(path) > Len(root) + 1
       /\ path[Len(root) + 2] # "/"

\* C27: replace_web_root_in_path is invertible: for all paths p and web roots
\* a, b such that p starts with a,
\* replace_web_root_in_path(replace_web_root_in_path(p, a, b), b, a) = p.
C27_ReplaceWebRootInvertible ==
    (/\ fu_call.fn = "replace_web_root_back"
     /\ StartsWith(fu_call.first_path, fu_call.new_web_root))
        => fu_call.result = fu_call.first_path

\* What holds of the round trip: it gives p back when a and b are cleaned
\* roots and p is a itself or a file below a.
C27_ReplaceWebRootInvertibleBelowRoot ==
    (/\ fu_call.fn = "replace_web_root_back"
     /\ IsCleaned(fu_call.new_web_root)
     /\ IsCleaned(fu_call.old_web_root)
     /\ IsUnder(fu_call.first_path, fu_call.new_web_root))
        => fu_call.result = fu_call.first_path

\* /aa was moved from the root /a to the root / and back: it comes back as
\* /a/a.
C27_Witness ==
    /\ fu_call.fn = "replace_web_root_back"
    /\ fu_call.first_path = <<"/", "a", "a">>
    /\ fu_call.new_web_root = <<"/", "a">>
    /\ fu_call.old_web_root = <<"/">>
    /\ fu_call.result = <<"/", "a", "/", "a">>

\* The path is base + "/" + rel for a cleaned base and a rel without
\* backslash and leading slash.
JoinedRel ==
    SubSeq(fu_call.path_str, Len(fu_call.base_path) + 2, Len(fu_call.path_str))

IsJoined ==
    /\ IsCleaned(fu_call.base_path)
    /\ StartsWith(fu_call.path_str, fu_call.base_path \o <<"/">>)
    /\ ReplaceBackslash(JoinedRel) = JoinedRel
    /\ TrimStartSlashes(JoinedRel) = JoinedRel

\* C28: split_path inverts joining: for a normalized base and a relative path
\* rel, split_path(base, base + "/" + rel) returns (base, rel); for a path that
\* does not start with base it returns ("", path).
C28_SplitPathInvertsJoin ==
    fu_call.fn = "split_path" =>
        /\ IsJoined => fu_call.result = <<fu_call.base_path, JoinedRel>>
        /\ (/\ IsCleaned(fu_call.base_path)
            /\ ReplaceBackslash(fu_call.path_str) = fu_call.path_str
            /\ ~StartsWith(fu_call.path_str, fu_call.base_path))
               => fu_call.result = <<<<>>, fu_call.path_str>>

\* C28 holds of the split_path of grux_file_util.
C28_SplitPathInvertsJoinGruxFileUtil ==
    (fu_call.fn = "split_path" /\ fu_call.module = "grux_file_util")
        => C28_SplitPathInvertsJoin

\* file::file_util::split_path("/a", "/a/a") has returned ("/a", "/a").
C28_Witness ==
    /\ fu_call.fn = "split_path"
    /\ fu_call.module = "file::file_util"
    /\ fu_call.base_path = <<"/", "a">>
    /\ fu_call.path_str = <<"/", "a", "/", "a">>
    /\ fu_call.result = <<(<<"/", "a">>), (<<"/", "a">>)>>

(***************************************************************************)
(*        THE SHARED ACME MANAGER UNDER CONCURRENT INITIALIZE/SHUTDOWN     *)
(***************************************************************************)

AmcFrame == UNCHANGED <<pmVars, pathVars, rsVars, normVars, tlsVars, amVars, csVars, lbVars, erhVars, srvVars, pxVars, fuVars, supVars, accVars, ptVars>>

\* The managers built so far.
ManagersBuilt == {m \in ManagerIds : polling_task[m] # "none"}

\* A task enters initialize_shared_acme_manager.
CallInitializeSharedAcmeManager(c) ==
    /\ am_call[c].pc = "idle"
    /\ am_call' = [am_call EXCEPT ![c] = [pc |-> "shutdown", fn |-> "initialize",
                                          new_manager |-> 0]]
    /\ UNCHANGED <<singleton_manager, polling_task>>
    /\ AmcFrame

\* A task enters shutdown_shared_acme_manager.
CallShutdownSharedAcmeManager(c) ==
    /\ am_call[c].pc = "idle"
    /\ am_call' = [am_call EXCEPT ![c] = [pc |-> "shutdown", fn |-> "shutdown",
                                          new_manager |-> 0]]
    /\ UNCHANGED <<singleton_manager, polling_task>>
    /\ AmcFrame

\* let mut manager = SHARED_ACME_MANAGER.write().await; *manager = new_manager:
\* the manager that was stored is dropped, its token is not cancelled.
StoreManager(new_manager) ==
    /\ singleton_manager' = new_manager
    /\ UNCHANGED polling_task

\* shutdown_shared_acme_manager, under the write lock: manager.take() and, if
\* there was one, existing.polling_cancel_token.cancel().
ShutdownSharedAcmeManager(c) ==
    /\ am_call[c].pc = "shutdown"
    /\ singleton_manager' = 0
    /\ polling_task' = IF singleton_manager # 0
                       THEN [polling_task EXCEPT ![singleton_manager] =
                                IF @ = "polling" THEN "cancelled" ELSE @]
                       ELSE polling_task
    /\ am_call' = [am_call EXCEPT ![c] =
                      IF am_call[c].fn = "initialize"
                      THEN [am_call[c] EXCEPT !.pc = "create"] ELSE NoAmCall]
    /\ AmcFrame

\* create_shared_acme_manager().await? returns Err: initialize returns.
CreateSharedAcmeManagerErr(c) ==
    /\ am_call[c].pc = "create"
    /\ am_call' = [am_call EXCEPT ![c] = NoAmCall]
    /\ UNCHANGED <<singleton_manager, polling_task>>
    /\ AmcFrame

\* create_shared_acme_manager returns Ok(None): ACME is not configured.
CreateSharedAcmeManagerNone(c) ==
    /\ am_call[c].pc = "create"
    /\ am_call' = [am_call EXCEPT ![c] = [@ EXCEPT !.pc = "store", !.new_manager = 0]]
    /\ UNCHANGED <<singleton_manager, polling_task>>
    /\ AmcFrame

\* create_shared_acme_manager returns Ok(Some(manager)): a fresh
\* polling_cancel_token, the polling task spawned with a clone of it.
CreateSharedAcmeManagerSome(c) ==
    /\ am_call[c].pc = "create"
    /\ \E m \in ManagerIds :
           /\ m \notin ManagersBuilt
           /\ \A k \in ManagerIds : k < m => k \in ManagersBuilt
           /\ polling_task' = [polling_task EXCEPT ![m] = "polling"]
           /\ am_call' = [am_call EXCEPT ![c] = [@ EXCEPT !.pc = "store",
                                                          !.new_manager = m]]
    /\ UNCHANGED singleton_manager
    /\ AmcFrame

\* The new manager is stored; initialize returns Ok.
InitializeStore(c) ==
    /\ am_call[c].pc = "store"
    /\ StoreManager(am_call[c].new_manager)
    /\ am_call' = [am_call EXCEPT ![c] = NoAmCall]
    /\ AmcFrame

\* The select! loop of a polling task whose token is cancelled breaks.
PollingTaskEnds(m) ==
    /\ polling_task[m] = "cancelled"
    /\ polling_task' = [polling_task EXCEPT ![m] = "ended"]
    /\ UNCHANGED <<singleton_manager, am_call>>
    /\ AmcFrame

InitAmc ==
    /\ AmcIdle
    /\ PMIdle
    /\ PathIdle
    /\ RSIdle
    /\ NormIdle
    /\ TlsIdle
    /\ AmIdle
    /\ CsIdle
    /\ LbIdle
    /\ ErhIdle
    /\ SrvIdle
    /\ PxIdle
    /\ FuIdle
    /\ SupIdle
    /\ AccIdle
    /\ PtIdle

NextAmc ==
    \/ \E c \in AmCallers : CallInitializeSharedAcmeManager(c)
    \/ \E c \in AmCallers : CallShutdownSharedAcmeManager(c)
    \/ \E c \in AmCallers : ShutdownSharedAcmeManager(c)
    \/ \E c \in AmCallers : CreateSharedAcmeManagerErr(c)
    \/ \E c \in AmCallers : CreateSharedAcmeManagerNone(c)
    \/ \E c \in AmCallers : CreateSharedAcmeManagerSome(c)
    \/ \E c \in AmCallers : InitializeStore(c)
    \/ \E m \in ManagerIds : PollingTaskEnds(m)

SpecAmc == InitAmc /\ [][NextAmc]_vars

\* ---- claims about the polling tasks of the shared ACME manager

\* The polling tasks whose manager-internal token is not cancelled.
LivePollingTasks == {m \in ManagerIds : polling_task[m] = "polling"}

\* Manager m is the stored one, or the call that built it is about to store it.
StoredOrBeingStored(m) ==
    \/ singleton_manager = m
    \/ \E c \in AmCallers : am_call[c].pc = "store" /\ am_call[c].new_manager = m

\* C32: at every moment at most one ACME polling task whose manager-internal
\* token is not cancelled exists, and it belongs to the manager stored in the
\* singleton (or just built by the call that is about to store it), for any
\* interleaving of initialize_shared_acme_manager and
\* shutdown_shared_acme_manager, concurrent calls included.
C32_AtMostOneLivePollingTask ==
    /\ Cardinality(LivePollingTasks) <= 1
    /\ \A m \in LivePollingTasks : StoredOrBeingStored(m)

\* C32 witness: two calls of initialize ran side by side and have both
\* returned; the manager the first one stored was replaced by the second
\* one's, and the polling tasks of both run with tokens nobody cancelled.
C32_Witness ==
    /\ \A c \in AmCallers : am_call[c].pc = "idle"
    /\ singleton_manager = 2
    /\ polling_task[1] = "polling"
    /\ polling_task[2] = "polling"

(***************************************************************************)
(*          THE PHP HANDLER: WORKER TASKS, MONITOR TASKS, START, STOP      *)
(***************************************************************************)

\* How many jobs wait in the request queue at a time.
MaxJobs == 1

SupFrame == UNCHANGED <<pathVars, rsVars, normVars, tlsVars, amVars, csVars, lbVars, erhVars, srvVars, pxVars, fuVars, amcVars, accVars, ptVars>>

\* The tasks of a worker that call ensure_running.
SupTasks == {"worker", "monitor"}

\* process.lock().await is granted: no call on the PhpCgiProcess is under way.
ProcessLockFree(w) == php[w].pc = "idle"

\* Where a task stands when it is about to lock the process and call
\* ensure_running: the worker after it took a job, the monitor at the top of
\* its loop.
BeforeEnsure(task) == IF task = "worker" THEN "job" ELSE "lock"

\* Where a task goes on after ensure_running returned: the monitor sleeps 5 s;
\* the worker processes the job after Ok and takes the next job after Err.
AfterEnsure(task, ok) ==
    IF task = "monitor" THEN "sleep"
    ELSE IF ok THEN "processing" ELSE "recv"

\* cmd.spawn() in start(): Ok keeps the child, Err releases the port.
SpawnChild(w, ok) ==
    IF ok
    THEN /\ php' = [php EXCEPT ![w].process = "running", ![w].pc = "idle"]
         /\ UNCHANGED <<pm, pmlast, rt>>
    ELSE /\ CallRelease(php[w].assigned_port)
         /\ php' = [php EXCEPT ![w].assigned_port = NoPort, ![w].pc = "idle"]

\* PHPHandler::start(): one worker task is spawned per worker.
HandlerStart ==
    /\ ~sup_handler.started
    /\ sup_handler' = [sup_handler EXCEPT !.started = TRUE]
    /\ sup_task' = [w \in Workers |-> [sup_task[w] EXCEPT !.worker = "spawned"]]
    /\ UNCHANGED pmVars
    /\ SupFrame

\* The worker task after a failed first start: `return`, before the monitor
\* task is spawned.
WorkerAfterFailedStart == [worker |-> "returned", monitor |-> "none"]

\* The worker task locks its process and calls start(): the port is allocated.
WorkerStart(w) ==
    /\ sup_task[w].worker = "spawned"
    /\ ProcessLockFree(w)
    /\ StartAllocate(w)
    /\ sup_task' = [sup_task EXCEPT ![w] =
                       IF php'[w].pc = "idle" THEN WorkerAfterFailedStart
                       ELSE [@ EXCEPT !.worker = "starting"]]
    /\ UNCHANGED sup_handler
    /\ SupFrame

\* start() of the worker task goes on: the child is spawned, then the monitor
\* task; or the spawn fails and the worker task returns.
WorkerSpawn(w, ok) ==
    /\ sup_task[w].worker = "starting"
    /\ php[w].pc = "spawn"
    /\ SpawnChild(w, ok)
    /\ sup_task' = [sup_task EXCEPT ![w] =
                       IF ok THEN [worker |-> "recv", monitor |-> "lock"]
                       ELSE WorkerAfterFailedStart]
    /\ UNCHANGED sup_handler
    /\ SupFrame

\* rx_data.recv().await returns a job.
WorkerRecv(w) ==
    /\ sup_task[w].worker = "recv"
    /\ sup_handler.queue > 0
    /\ sup_handler' = [sup_handler EXCEPT !.queue = @ - 1]
    /\ sup_task' = [sup_task EXCEPT ![w].worker = "job"]
    /\ UNCHANGED pmVars
    /\ SupFrame

\* The simulated processing (100 ms) is over: the loop goes round.
WorkerProcessed(w) ==
    /\ sup_task[w].worker = "processing"
    /\ sup_task' = [sup_task EXCEPT ![w].worker = "recv"]
    /\ UNCHANGED <<pmVars, sup_handler>>
    /\ SupFrame

\* process.lock().await; ensure_running(): is_alive(), and for a dead child the
\* wait of 1 s with the lock held.
TaskEnsureRunning(w, task) ==
    /\ sup_task[w][task] = BeforeEnsure(task)
    /\ ProcessLockFree(w)
    /\ php' = [php EXCEPT ![w].process = IF IsAliveResult(w) THEN "running" ELSE "none",
                          ![w].pc = IF IsAliveResult(w) THEN "idle" ELSE "sleep"]
    /\ sup_task' = [sup_task EXCEPT ![w][task] =
                       IF IsAliveResult(w) THEN AfterEnsure(task, TRUE) ELSE "restarting"]
    /\ UNCHANGED <<pm, pmlast, rt, sup_handler>>
    /\ SupFrame

\* ensure_running() after the wait: self.start(), the port is allocated.
TaskRestart(w, task) ==
    /\ sup_task[w][task] = "restarting"
    /\ php[w].pc = "sleep"
    /\ StartAllocate(w)
    /\ sup_task' = [sup_task EXCEPT ![w][task] =
                       IF php'[w].pc = "idle" THEN AfterEnsure(task, FALSE)
                       ELSE "respawning"]
    /\ UNCHANGED sup_handler
    /\ SupFrame

\* start() within ensure_running goes on: the child is spawned, or not.
TaskRespawn(w, task, ok) ==
    /\ sup_task[w][task] = "respawning"
    /\ php[w].pc = "spawn"
    /\ SpawnChild(w, ok)
    /\ sup_task' = [sup_task EXCEPT ![w][task] = AfterEnsure(task, ok)]
    /\ UNCHANGED sup_handler
    /\ SupFrame

\* tokio::time::sleep(5 s) of the monitor is over.
MonitorWake(w) ==
    /\ sup_task[w].monitor = "sleep"
    /\ sup_task' = [sup_task EXCEPT ![w].monitor = "lock"]
    /\ UNCHANGED <<pmVars, sup_handler>>
    /\ SupFrame

\* The child process exits or crashes.
ChildExits(w) ==
    /\ php[w].process = "running"
    /\ php' = [php EXCEPT ![w].process = "exited"]
    /\ UNCHANGED <<pm, pmlast, rt, supVars>>
    /\ SupFrame

\* A request is put into the queue (request_queue_tx).
EnqueueJob ==
    /\ sup_handler.started
    /\ sup_handler.queue < MaxJobs
    /\ sup_handler' = [sup_handler EXCEPT !.queue = @ + 1]
    /\ UNCHANGED <<pmVars, sup_task>>
    /\ SupFrame

\* PHPHandler::stop(): the stopping task is spawned; stop returns.
HandlerStop ==
    /\ sup_handler.started
    /\ sup_handler.stop = "none"
    /\ sup_handler' = [sup_handler EXCEPT !.stop = "spawned"]
    /\ UNCHANGED <<pmVars, sup_task>>
    /\ SupFrame

\* The stopping task locks the next process and calls stop() on it: the child
\* is killed, the port released.  After the last one the task is over.
StopTaskStopsProcess(w) ==
    /\ sup_handler.stop = "spawned"
    /\ w \notin sup_handler.stopped
    /\ ProcessLockFree(w)
    /\ IF php[w].assigned_port # NoPort
       THEN CallRelease(php[w].assigned_port)
       ELSE UNCHANGED <<pm, pmlast, rt>>
    /\ php' = [php EXCEPT ![w].process = "none", ![w].assigned_port = NoPort]
    /\ sup_handler' = [sup_handler EXCEPT
                          !.stopped = @ \cup {w},
                          !.stop = IF sup_handler.stopped \cup {w} = Workers
                                   THEN "done" ELSE "spawned"]
    /\ UNCHANGED sup_task
    /\ SupFrame

\* run_trigger(n) for n = "stop_services" or "shutdown": no task of the handler
\* holds a token of a trigger.
SupTriggerFired(n) ==
    /\ sup_handler.started
    /\ n \notin sup_handler.fired
    /\ sup_handler' = [sup_handler EXCEPT !.fired = @ \cup {n}]
    /\ UNCHANGED <<pmVars, sup_task>>
    /\ SupFrame

InitSup ==
    /\ SupIdle
    /\ PMInit
    /\ PathIdle
    /\ RSIdle
    /\ NormIdle
    /\ TlsIdle
    /\ AmIdle
    /\ CsIdle
    /\ LbIdle
    /\ ErhIdle
    /\ SrvIdle
    /\ PxIdle
    /\ FuIdle
    /\ AmcIdle
    /\ AccIdle
    /\ PtIdle

NextSup ==
    \/ HandlerStart
    \/ \E w \in Workers : WorkerStart(w)
    \/ \E w \in Workers, ok \in BOOLEAN : WorkerSpawn(w, ok)
    \/ \E w \in Workers : WorkerRecv(w)
    \/ \E w \in Workers : WorkerProcessed(w)
    \/ \E w \in Workers, task \in SupTasks : TaskEnsureRunning(w, task)
    \/ \E w \in Workers, task \in SupTasks : TaskRestart(w, task)
    \/ \E w \in Workers, task \in SupTasks, ok \in BOOLEAN : TaskRespawn(w, task, ok)
    \/ \E w \in Workers : MonitorWake(w)
    \/ \E w \in Workers : ChildExits(w)
    \/ EnqueueJob
    \/ HandlerStop
    \/ \E w \in Workers : StopTaskStopsProcess(w)
    \/ \E n \in TriggerNames : SupTriggerFired(n)
    \/ \E s \in Clients : ClientAllocate(s) /\ UNCHANGED supVars
    \/ \E s \in Clients : ClientReleaseAll(s) /\ UNCHANGED supVars

SpecSup == InitSup /\ [][NextSup]_vars

\* The runtime runs every task that can run; spawning a child can succeed.
FairSpecSup ==
    /\ SpecSup
    /\ \A w \in Workers :
          /\ WF_vars(WorkerStart(w))
          /\ WF_vars(WorkerSpawn(w, TRUE))
          /\ WF_vars(WorkerRecv(w))
          /\ WF_vars(WorkerProcessed(w))
          /\ WF_vars(MonitorWake(w))
          /\ WF_vars(StopTaskStopsProcess(w))
          /\ \A task \in SupTasks :
                /\ WF_vars(TaskEnsureRunning(w, task))
                /\ WF_vars(TaskRestart(w, task))
                /\ WF_vars(TaskRespawn(w, task, TRUE))

\* The calls on a PhpCgiProcess in any order, beside clients of the port
\* manager that allocate ports and release their own.
NextPhpCalls ==
    \/ \E w \in Workers : PhpStart(w)
    \/ \E w \in Workers : PhpSpawn(w)
    \/ \E w \in Workers : PhpChildExit(w)
    \/ \E w \in Workers : PhpIsAlive(w)
    \/ \E w \in Workers : PhpEnsureRunning(w)
    \/ \E w \in Workers : PhpRestart(w)
    \/ \E w \in Workers : PhpStop(w)
    \/ \E s \in Clients : ClientAllocate(s)
    \/ \E s \in Clients : ClientReleaseAll(s)

SpecPhpCalls == InitPM /\ [][NextPhpCalls]_vars

\* ---- claims about the PHP handler

\* The handler was started and stop was not called.
HandlerRunning == sup_handler.started /\ sup_handler.stop = "none"

\* Some task of worker w is there to start its child (again): the worker task
\* before its first start is over, or the monitor task.
SomeTaskStartsChild(w) ==
    \/ sup_task[w].worker \in {"spawned", "starting"}
    \/ sup_task[w].monitor # "none"

\* C33: whenever a worker's child fails to spawn (at the first start or at a
\* restart) or exits, the worker is started again after a backoff as long as
\* the handler has not been stopped; no worker stays without a child for good
\* while the handler runs and spawning can succeed. In every state: a worker
\* of a running handler that has no live child has a task that will start one.
C33_WorkerWithoutChildIsRestarted ==
    \A w \in Workers :
        (HandlerRunning /\ php[w].process # "running") => SomeTaskStartsChild(w)

\* What holds: once the first start succeeded, the monitor is there for good.
C33_MonitoredAfterFirstStart ==
    \A w \in Workers :
        sup_task[w].worker \in {"recv", "job", "restarting", "respawning", "processing"}
            => sup_task[w].monitor # "none"

\* C33 witness: the first spawn failed while ports are free; the worker task
\* has returned, no monitor was spawned, the handler runs.
C33_Witness ==
    /\ HandlerRunning
    /\ sup_task["php-worker-0"] = WorkerAfterFailedStart
    /\ php["php-worker-0"].process = "none"
    /\ pm.allocated_ports = {}
    /\ pmlast.op = "release"

\* C34: after PHPHandler::stop has completed (its stopping task has stopped
\* every process), every worker's child is killed and its port released, and
\* this stays so: no task starts a child or allocates a port for the handler.
C34_StoppedHandlerStaysStopped ==
    sup_handler.stop = "done" =>
        \A w \in Workers :
            /\ php[w].process # "running"
            /\ php[w].assigned_port = NoPort
            /\ pm.service_ports[w] = {}
            /\ php[w].pc = "idle"

\* C34 witness: the stopping task is over and the monitor has started the
\* child again, on a port it allocated.
C34_Witness ==
    /\ sup_handler.stop = "done"
    /\ php["php-worker-0"].process = "running"
    /\ php["php-worker-0"].assigned_port \in pm.service_ports["php-worker-0"]
    /\ sup_task["php-worker-0"].monitor = "sleep"

\* The request loop and the monitor loop of worker w are over.
LoopsOver(w) ==
    /\ sup_task[w].worker \in {"none", "returned"}
    /\ sup_task[w].monitor = "none"

\* C35: every long-lived task of the handler (each worker's request loop and
\* monitor loop) terminates after stop_services or shutdown was fired; none
\* loops forever once the handler is torn down.
C35_LoopsEndAfterTrigger ==
    (sup_handler.fired # {}) ~> (\A w \in Workers : LoopsOver(w))

\* C35 witness: both triggers were fired and stop was called, the request loop
\* waits for a job and the monitor is about to call ensure_running again.
C35_Witness ==
    /\ sup_handler.fired = TriggerNames
    /\ sup_handler.stop = "done"
    /\ sup_task["php-worker-0"].worker = "recv"
    /\ sup_task["php-worker-0"].monitor = "lock"

\* C39: for every PHP-CGI worker, after each of start, is_alive,
\* ensure_running and stop, in any order and with failed spawns, assigned_port
\* is Some(p) iff the port manager records p for the worker's service id; a
\* child is present only while a port is assigned; the worker never holds
\* more than one port.
C39_AssignedPortMatchesPortManager ==
    \A w \in Workers :
        php[w].pc = "idle" =>
            /\ \A p \in PortRange : (php[w].assigned_port = p) <=> (p \in pm.service_ports[w])
            /\ php[w].process = "running" => php[w].assigned_port # NoPort
            /\ Cardinality(pm.service_ports[w]) <= 1

\* What holds in any order of the calls: the port part of C39.
C39_PortPartHolds ==
    \A w \in Workers :
        php[w].pc = "idle" =>
            /\ \A p \in PortRange : (php[w].assigned_port = p) <=> (p \in pm.service_ports[w])
            /\ Cardinality(pm.service_ports[w]) <= 1

\* C39 witness: start() was called on a worker whose child runs and the spawn
\* failed: the port is released, the child of the first start is still there.
C39_Witness ==
    /\ php["php-worker-0"].pc = "idle"
    /\ php["php-worker-0"].process = "running"
    /\ php["php-worker-0"].assigned_port = NoPort
    /\ pm.service_ports["php-worker-0"] = {}
    /\ pmlast.op = "release"

(***************************************************************************)
(*                 ERRORS OF SINGLE CONNECTIONS IN THE ACCEPT LOOPS        *)
(***************************************************************************)

AccFrame == UNCHANGED <<pmVars, pathVars, rsVars, normVars, tlsVars, amVars, csVars, lbVars, erhVars, pxVars, fuVars, amcVars, supVars, ptVars>>

\* The errors a single connection can meet.
ConnectionErrorKinds == {"accept", "tls_handshake", "http"}

\* A step of the server while no connection fails.
ServerStep ==
    /\ \/ InitializeServerCall
       \/ InitializeServerLoop
       \/ \E i \in 1..Len(BindingOrder) : BindingBind(i)
       \/ \E i \in 1..Len(BindingOrder) : BindingTlsSetup(i)
       \/ \E i \in 1..Len(BindingOrder) : BindingAccept(i)
    /\ UNCHANGED srv_errors

\* accept() returns Err.  The TLS loop logs and continues; the non-TLS loop
\* unwraps the result and panics in the task that runs join_all.
FailedAccept(i) ==
    IF srv_bindings[i].is_tls
    THEN UNCHANGED <<srv_binding_state, srv_server>>
    ELSE /\ srv_binding_state' =
                [j \in DOMAIN srv_binding_state |->
                    [srv_binding_state[j] EXCEPT !.state = "dead"]]
         /\ srv_server' = [srv_server EXCEPT !.pc = "panicked"]

\* listener.accept() of binding i fails (the process is out of file
\* descriptors, the connection was reset before it was taken).
BindingAcceptFails(i) ==
    /\ srv_server.pc = "join_all"
    /\ srv_binding_state[i].state = "accepting"
    /\ "accept" \notin srv_errors[i]
    /\ srv_errors' = [srv_errors EXCEPT ![i] = @ \cup {"accept"}]
    /\ FailedAccept(i)
    /\ UNCHANGED <<srv_bindings, srv_validation>>
    /\ AccFrame

\* The TLS handshake of a connection fails: tls_listener.accept() yields Err,
\* the loop logs and continues.
BindingTlsHandshakeFails(i) ==
    /\ srv_server.pc = "join_all"
    /\ srv_binding_state[i].state = "accepting"
    /\ srv_bindings[i].is_tls
    /\ "tls_handshake" \notin srv_errors[i]
    /\ srv_errors' = [srv_errors EXCEPT ![i] = @ \cup {"tls_handshake"}]
    /\ UNCHANGED srvVars
    /\ AccFrame

\* serve_connection returns Err in the task spawned for a connection: the task
\* logs it and ends.
ConnectionServeFails(i) ==
    /\ srv_server.pc = "join_all"
    /\ srv_binding_state[i].accepted > 0
    /\ "http" \notin srv_errors[i]
    /\ srv_errors' = [srv_errors EXCEPT ![i] = @ \cup {"http"}]
    /\ UNCHANGED srvVars
    /\ AccFrame

InitAcc ==
    /\ SrvInit
    /\ srv_errors = [i \in 1..Len(BindingOrder) |-> {}]
    /\ PMIdle
    /\ PathIdle
    /\ RSIdle
    /\ NormIdle
    /\ TlsIdle
    /\ AmIdle
    /\ CsIdle
    /\ LbIdle
    /\ ErhIdle
    /\ PxIdle
    /\ FuIdle
    /\ AmcIdle
    /\ SupIdle
    /\ PtIdle

NextAcc ==
    \/ ServerStep
    \/ \E i \in 1..Len(BindingOrder) : BindingAcceptFails(i)
    \/ \E i \in 1..Len(BindingOrder) : BindingTlsHandshakeFails(i)
    \/ \E i \in 1..Len(BindingOrder) : ConnectionServeFails(i)

SpecAcc == InitAcc /\ [][NextAcc]_vars

\* ---- claims about the errors of single connections

\* Every binding's ip parses and its address binds: no binding is taken down
\* by the start of another one.
AllBindingsBind ==
    \A j \in DOMAIN srv_bindings : srv_bindings[j].ip_valid /\ srv_bindings[j].bind_ok

\* C36: an error while accepting or serving a single connection never ends
\* the accept loop of its binding nor affects another binding: after a failed
\* accept, a failed TLS handshake or a connection-level HTTP error the binding
\* keeps accepting, on TLS and non-TLS bindings alike.
C36_ConnectionErrorsLeaveAcceptLoops ==
    AllBindingsBind =>
        \A i \in DOMAIN srv_errors :
            srv_errors[i] # {} =>
                /\ srv_binding_state[i].state = "accepting"
                /\ \A j \in DOMAIN srv_binding_state : ~TakenDown(j)

\* What holds: the errors of TLS bindings, and on every binding the errors of
\* connections that were accepted, leave every accept loop running.
C36_TlsAndServeErrorsLeaveAcceptLoops ==
    (/\ AllBindingsBind
     /\ \A i \in DOMAIN srv_errors :
           "accept" \in srv_errors[i] => srv_bindings[i].is_tls)
        => \A i \in DOMAIN srv_errors :
               srv_errors[i] # {} =>
                   /\ srv_binding_state[i].state = "accepting"
                   /\ \A j \in DOMAIN srv_binding_state : ~TakenDown(j)

\* C36 witness: an accept failed on the non-TLS first binding; it is gone, and
\* so is the TLS binding beside it, which had taken a connection.
C36_Witness ==
    /\ AllBindingsBind
    /\ ~srv_bindings[1].is_tls
    /\ srv_errors[1] = {"accept"}
    /\ srv_binding_state[1].state = "dead"
    /\ srv_bindings[2].is_tls
    /\ srv_binding_state[2].state = "dead"
    /\ srv_binding_state[2].accepted = 1
    /\ srv_server.pc = "panicked"

(***************************************************************************)
(*                     persist_generated_tls_for_site                      *)
(***************************************************************************)

PtFrame == UNCHANGED <<pmVars, pathVars, rsVars, normVars, tlsVars, amVars, csVars, lbVars, erhVars, srvVars, pxVars, fuVars, amcVars, supVars, accVars>>

\* format!("{}/{}.crt.pem", dir, random_number) and the key's path, for the
\* random number of this call.
cert_path == "certs/7.crt.pem"

key_path == "certs/7.key.pem"

\* A mutant of the temp path: the data is written at the final path.
TmpPathInPlace(path) == path

\* format!("{}.tmp", &path)
TmpPath(path) == path \o ".tmp"

PtPaths == {cert_path, key_path, TmpPath(cert_path), TmpPath(key_path)}

\* The paths the store holds before the call: none, or those of an earlier
\* certificate.
StoredBefore == {"", "certs/3.crt.pem"}

\* The steps of the call that can fail, in the order of the code.
PtSteps ==
    <<"create_dir_all", "create_cert", "write_cert", "flush_cert", "rename_cert",
      "create_key", "write_key", "flush_key", "rename_key", "connect",
      "update_first", "update_second">>

\* The step after step k; the admin portal's paths take two UPDATEs, a
\* site's paths one.
PtNext(k, is_admin) ==
    IF k = Len(PtSteps) \/ (PtSteps[k] = "update_first" /\ ~is_admin) THEN "returned"
    ELSE PtSteps[k + 1]

PtIndex(step) == CHOOSE k \in 1..Len(PtSteps) : PtSteps[k] = step

\* What the step does to the files when it succeeds.
PtFilesAfter(step) ==
    CASE step = "create_cert" -> [pt_files EXCEPT ![TmpPath(cert_path)] = "empty"]
      [] step = "write_cert" -> [pt_files EXCEPT ![TmpPath(cert_path)] = "written"]
      [] step = "flush_cert" -> [pt_files EXCEPT ![TmpPath(cert_path)] = "flushed"]
      [] step = "rename_cert" ->
             IF TmpPath(cert_path) = cert_path THEN pt_files
             ELSE [pt_files EXCEPT ![cert_path] = pt_files[TmpPath(cert_path)],
                                   ![TmpPath(cert_path)] = "absent"]
      [] step = "create_key" -> [pt_files EXCEPT ![TmpPath(key_path)] = "empty"]
      [] step = "write_key" -> [pt_files EXCEPT ![TmpPath(key_path)] = "written"]
      [] step = "flush_key" -> [pt_files EXCEPT ![TmpPath(key_path)] = "flushed"]
      [] step = "rename_key" ->
             IF TmpPath(key_path) = key_path THEN pt_files
             ELSE [pt_files EXCEPT ![key_path] = pt_files[TmpPath(key_path)],
                                   ![TmpPath(key_path)] = "absent"]
      [] OTHER -> pt_files

\* What the step leaves of the files when it fails: a write_all that fails
\* may have written a part.
PtFilesAfterFailure(step) ==
    CASE step = "write_cert" -> [pt_files EXCEPT ![TmpPath(cert_path)] = "partial"]
      [] step = "write_key" -> [pt_files EXCEPT ![TmpPath(key_path)] = "partial"]
      [] OTHER -> pt_files

\* What the step does to the store when it succeeds: for the admin portal the
\* certificate path, then the key path; for a site both in one UPDATE.
PtStoreAfter(step, is_admin) ==
    CASE step = "update_first" /\ is_admin -> [pt_store EXCEPT !.cert_path = cert_path]
      [] step = "update_first" /\ ~is_admin ->
             [cert_path |-> cert_path, key_path |-> key_path]
      [] step = "update_second" -> [pt_store EXCEPT !.key_path = key_path]
      [] OTHER -> pt_store

\* persist_generated_tls_for_site(site, cert_pem, key_pem, is_admin) is called;
\* a later call may draw the random number of an earlier one, and then finds
\* the files that one left.
CallPersistGeneratedTls(is_admin) ==
    /\ pt_call.pc \in {"idle", "returned"}
    /\ pt_call' = [pc |-> PtSteps[1], is_admin |-> is_admin, result |-> "none"]
    /\ UNCHANGED <<pt_files, pt_store>>
    /\ PtFrame

\* The step the call stands at succeeds.
PtStepSucceeds ==
    /\ pt_call.pc \notin {"idle", "returned"}
    /\ pt_files' = PtFilesAfter(pt_call.pc)
    /\ pt_store' = PtStoreAfter(pt_call.pc, pt_call.is_admin)
    /\ LET next == PtNext(PtIndex(pt_call.pc), pt_call.is_admin)
       IN  pt_call' = [pt_call EXCEPT !.pc = next,
                                      !.result = IF next = "returned" THEN "Ok" ELSE "none"]
    /\ PtFrame

\* The step the call stands at fails: `?` returns the error.
PtStepFails ==
    /\ pt_call.pc \notin {"idle", "returned"}
    /\ pt_files' = PtFilesAfterFailure(pt_call.pc)
    /\ pt_call' = [pt_call EXCEPT !.pc = "returned", !.result = pt_call.pc]
    /\ UNCHANGED pt_store
    /\ PtFrame

PtInit ==
    /\ pt_files = [p \in PtPaths |-> "absent"]
    /\ \E c \in StoredBefore : pt_store = [cert_path |-> c, key_path |-> c]
    /\ pt_call = [pc |-> "idle", is_admin |-> FALSE, result |-> "none"]

InitPt ==
    /\ PtInit
    /\ PMIdle
    /\ PathIdle
    /\ RSIdle
    /\ NormIdle
    /\ TlsIdle
    /\ AmIdle
    /\ CsIdle
    /\ LbIdle
    /\ ErhIdle
    /\ SrvIdle
    /\ PxIdle
    /\ FuIdle
    /\ AmcIdle
    /\ SupIdle
    /\ AccIdle

NextPt ==
    \/ \E is_admin \in BOOLEAN : CallPersistGeneratedTls(is_admin)
    \/ PtStepSucceeds
    \/ PtStepFails

SpecPt == InitPt /\ [][NextPt]_vars

\* ---- claims about persist_generated_tls_for_site

\* The file at the path is there and completely written and flushed.
FullyWritten(path) == path \in PtPaths /\ pt_files[path] = "flushed"

\* C37: the certificate and the key become visible at their final paths only
\* by the rename of a completely written and flushed temp file; the store is
\* updated with the new paths only after both final files exist; whatever
\* step fails, the store never refers to a file of this call that was not
\* fully written.
C37_FinalFilesCompleteStoreAfterBoth ==
    /\ \A path \in {cert_path, key_path} : pt_files[path] \in {"absent", "flushed"}
    /\ (pt_store.cert_path = cert_path \/ pt_store.key_path = key_path)
           => (FullyWritten(cert_path) /\ FullyWritten(key_path))
    /\ pt_call.result = "Ok" =>
           (pt_store = [cert_path |-> cert_path, key_path |-> key_path])

\* C37 witness: for the admin portal the second UPDATE failed: the store has
\* the new certificate path and the old key path, and both new files are
\* complete.
C37_Witness ==
    /\ pt_call.is_admin
    /\ pt_call.result = "update_second"
    /\ pt_store.cert_path = cert_path
    /\ pt_store.key_path # key_path
    /\ FullyWritten(cert_path)
    /\ FullyWritten(key_path)

\* C37, second witness: the key's write_all failed half way: the certificate
\* is at its final path, the key is a partial temp file, the store is as it was.
C37_WitnessPartialKey ==
    /\ pt_call.result = "write_key"
    /\ pt_files[TmpPath(key_path)] = "partial"
    /\ pt_files[key_path] = "absent"
    /\ FullyWritten(cert_path)
    /\ pt_store.cert_path # cert_path

=============================================================================
